---------------------------- MODULE Spec2Model ----------------------------
(***************************************************************************)
(* A model of the tracer-api of neon-evm: the host-message replayer        *)
(* (replay/processor.rs), the command layer (neon/mod.rs), the state diff  *)
(* and its balance collation (neon/diff.rs), the EVM account storage       *)
(* (neon/account_storage.rs), the tracer (neon/tracer.rs), the script      *)
(* tracer (js/mod.rs), the options of the RPC server (main.rs), the        *)
(* tracer scope of a request (Tracer::using), the invoke stack of the      *)
(* replayer (LightIC) and the holder account's transaction layout.         *)
(*                                                                         *)
(* Every component has its own variables and its own specification; a      *)
(* specification leaves the variables of the other components untouched.   *)
(* Rust's Option is a sequence: <<>> is None and <<x>> is Some(x).         *)
(***************************************************************************)
EXTENDS Integers, Sequences, FiniteSets, TLC

VARIABLES
    \* ProcessedMessage (replay/processor.rs) and its driver
    message,        \* message.instructions
    current_idx,    \* ProcessedMessage.current_idx
    exited,         \* ProcessedMessage.exited
    executed,       \* the indices process_instruction was called with, in order
    returned,       \* what each call of next() returned, in order
    \* replay_transaction (neon/mod.rs)
    rt_pc,          \* "loop" while iterating message.instructions, then "done"
    rt_i,           \* the loop index i
    traced_call,    \* the local traced_call: Option<TracedCall>
    rt_result,      \* the value replay_transaction returned, <<>> while running
    \* command_trace_call (neon/mod.rs)
    tc_in,          \* the arguments and what the executor will do with them
    tc_result,      \* the value command_trace_call returned, <<>> before the call
    \* collect_balance_changes (neon/diff.rs)
    df_transfers,   \* the transfers handed to collect_balance_changes
    df_result,      \* what it returned, <<>> before the call
    \* EmulatorAccountStorage (neon/account_storage.rs) and its provider
    st_provider,        \* which Provider the storage is over: "Db" or "Map"
    st_snapshot,        \* provider: EVM address -> what the snapshot holds for it
    st_phase,           \* "new" before EmulatorAccountStorage::new, then "serving", then "returned"
    block_number,       \* EmulatorAccountStorage::block_number, <<>> before new
    block_timestamp,    \* EmulatorAccountStorage::block_timestamp, <<>> before new
    st_errors,          \* the provider calls that returned Err so far
    ethereum_accounts,  \* the map of hydrated accounts, by EVM address
    st_fetched,         \* per host key, the get_account_at_slot calls made so far
    st_misses,          \* per EVM address, the create_acc_if_not_exists calls that returned false
    st_queries,         \* the number of AccountStorage queries made so far
    st_last,            \* the last query and its answer, <<>> before the first
    \* Tracer (neon/tracer.rs) and the interpreter that emits its events
    tr_phase,       \* where the interpreter is between two events
    tr_frames,      \* the interpreter's open frames, outermost first
    tr_op,          \* the opcode of the last Step event
    tr_reason,      \* the exit reason of the frame that is exiting
    tr_steps,       \* the number of Step events emitted
    tr_calltree,    \* per call, create and suicide in the order entered, its path in the call tree
    vm,             \* Tracer::vm, the VmTracer
    tracer,         \* Tracer::tracer, the ExecutiveTracer
    data,           \* Tracer::data, the FullTraceData entries
    return_value,   \* Tracer::return_value
    tr_out,         \* what into_traces and ExecutionResult::new produced, <<>> before
    \* JsTracer (js/mod.rs), the script tracer, and the server that answers with it
    js_tracer,      \* Tracer::js_tracer: Option<JsTracer>
    js_calls,       \* the EvmLogger and Tracer methods called on the JsTracer, in order
    js_steps,       \* the (pc, opcode) of each capture_state call, in order
    js_phase,       \* "new", "tracing", "traced", "answered" or "panicked"
    js_trace,       \* TracedCall::js_trace, <<>> before into_traces
    js_response,    \* what trace_transaction / trace_call answered, <<>> before
    \* one step of a script that reads log.stack
    sk_stack,       \* the EVM stack at the step, bottom first
    sk_idx,         \* the index the script passes to log.stack.peek
    sk_result,      \* <<length(), peek(idx)>> as the script got them, <<>> before
    \* trace_with_options (main.rs), on one TracedCall with two option lists
    op_call,        \* the TracedCall
    op_a,           \* the option list of the first request
    op_b,           \* the option list of the second request
    op_result,      \* the two TraceResults, <<>> before
    \* the hash-ordered collections of one replay: accounts_to_get and account_data
    \* of replay_transaction (neon/mod.rs), balance_diff of prepare_state_diff
    ho_phase,       \* "fetch", then "diff", then "done"
    ho_keys,        \* message.account_keys
    account_data,   \* the snapshot: key -> account
    ho_applies,     \* the applies of the executor
    ho_transfers,   \* the transfers of the executor
    ho_state_diff,  \* what prepare_state_diff returned, <<>> before
    \* requests in flight at once, each on a thread of its own: replay_transaction and command_trace_call (neon/mod.rs) with Tracer::using (neon/tracer.rs)
    rq_tx,          \* per request, the transaction it replays
    rq_phase,       \* per request: "fetch", "replay", "trace", "inside" the closure of tracer.using, "after", "done"
    rq_snapshot,    \* per request, its account_data / ProcessedMessage accounts
    env_tracer,     \* per thread, the slot of environmental!(tracer: Tracer)
    env_tx,         \* per thread, the slot of transaction_tracing: its listener
    env_vm,         \* per thread, the slot of vm_tracing: its listener
    rq_events,      \* per request, the events its thread emitted, each with the tracer reached
    rq_result,      \* per request, what it returned, <<>> before
    \* LightIC (replay/processor.rs), the invoke context of one instruction
    invoke_stack,   \* LightIC::invoke_stack: the key of each frame, outermost first
    ic_last,        \* the last push or pop: its key, the stack before it and its result
    \* get_transaction_from_holder (neon/mod.rs) on the data of one holder account
    hd_data,        \* holder.data, a sequence of bytes
    hd_result,      \* what the holder arm of replay_transaction made of it, <<>> before
    \* ProcessedMessage (replay/processor.rs) with its accounts, and the replay loop of replay_transaction (neon/mod.rs) over it
    pa_message,     \* message.instructions, each with what its handler does
    pa_cells,       \* ProcessedMessage::accounts, the shared account cells: key -> value
    all_accounts,   \* ProcessedMessage::all_accounts, what accounts() returns
    pa_idx,         \* the loop index i of replay_transaction, or current_idx
    pa_exited,      \* ProcessedMessage::exited
    pa_seen,        \* per instruction, the map its MapProvider was made over, <<>> if not traced
    pa_last,        \* the last process_instruction or next: accounts() before it and its result
    pa_phase,       \* "loop" or "calls" while running, then "done"
    pa_calls,       \* the number of calls made on the ProcessedMessage
    \* ProcessedMessage::new and create_keyed_accounts (replay/processor.rs)
    km_message,     \* the message: header, account_keys and its instruction
    km_snapshot,    \* what the snapshot holds for the program and its loaders
    km_processed,   \* what ProcessedMessage::new returned, <<>> before the call
    km_keyed,       \* what create_keyed_accounts returned, <<>> before the call
    \* From<VMTrace> for Vec<StructLog> (v1/geth/types/trace.rs)
    sl_trace,       \* the VMTrace handed to the conversion
    sl_logs,        \* the struct logs it gave, <<>> before the call
    \* command_replay_transaction (neon/mod.rs)
    cr_lookup,      \* what get_transaction_data answers for the hash
    cr_result,      \* what command_replay_transaction returned, <<>> while running
    \* OpCode::is_push (js/mod.rs)
    ip_code,        \* OpCode.code, the opcode byte of the log
    ip_result       \* what log.op.isPush() answered, <<>> before the call

pmVars == <<message, current_idx, exited, executed, returned>>
rtVars == <<rt_pc, rt_i, traced_call, rt_result>>
tcVars == <<tc_in, tc_result>>
dfVars == <<df_transfers, df_result>>
stVars == <<st_provider, st_snapshot, st_phase, block_number, block_timestamp, st_errors,
            ethereum_accounts, st_fetched, st_misses, st_queries, st_last>>
trVars == <<tr_phase, tr_frames, tr_op, tr_reason, tr_steps, tr_calltree,
            vm, tracer, data, return_value, tr_out>>
jsVars == <<js_tracer, js_calls, js_steps, js_phase, js_trace, js_response>>
skVars == <<sk_stack, sk_idx, sk_result>>
opVars == <<op_call, op_a, op_b, op_result>>
hoVars == <<ho_phase, ho_keys, account_data, ho_applies, ho_transfers, ho_state_diff>>
rqVars == <<rq_tx, rq_phase, rq_snapshot, env_tracer, env_tx, env_vm, rq_events, rq_result>>
icVars == <<invoke_stack, ic_last>>
hdVars == <<hd_data, hd_result>>
paVars == <<pa_message, pa_cells, all_accounts, pa_idx, pa_exited, pa_seen, pa_last, pa_phase, pa_calls>>
kmVars == <<km_message, km_snapshot, km_processed, km_keyed>>
slVars == <<sl_trace, sl_logs>>
crVars == <<cr_lookup, cr_result>>
ipVars == <<ip_code, ip_result>>
vars == <<pmVars, rtVars, tcVars, dfVars, stVars, trVars, jsVars, skVars, opVars, hoVars, rqVars, icVars, hdVars, paVars, kmVars, slVars, crVars, ipVars>>

\* the variables of the other components, for each component
notReplayVars == <<tcVars, dfVars, stVars, trVars, jsVars, skVars, opVars, hoVars, rqVars, icVars, hdVars, paVars, kmVars, slVars, crVars, ipVars>>
notTcVars == <<pmVars, rtVars, dfVars, stVars, trVars, jsVars, skVars, opVars, hoVars, rqVars, icVars, hdVars, paVars, kmVars, slVars, crVars, ipVars>>
notDfVars == <<pmVars, rtVars, tcVars, stVars, trVars, jsVars, skVars, opVars, hoVars, rqVars, icVars, hdVars, paVars, kmVars, slVars, crVars, ipVars>>
notStVars == <<pmVars, rtVars, tcVars, dfVars, trVars, jsVars, skVars, opVars, hoVars, rqVars, icVars, hdVars, paVars, kmVars, slVars, crVars, ipVars>>
\* the tracer drives its script tracer, so its actions say what becomes of jsVars
notTrVars == <<pmVars, rtVars, tcVars, dfVars, stVars, skVars, opVars, hoVars, rqVars, icVars, hdVars, paVars, kmVars, slVars, crVars, ipVars>>
notJsVars == <<pmVars, rtVars, tcVars, dfVars, stVars, trVars, skVars, opVars, hoVars, rqVars, icVars, hdVars, paVars, kmVars, slVars, crVars, ipVars>>
notSkVars == <<pmVars, rtVars, tcVars, dfVars, stVars, trVars, jsVars, opVars, hoVars, rqVars, icVars, hdVars, paVars, kmVars, slVars, crVars, ipVars>>
notOpVars == <<pmVars, rtVars, tcVars, dfVars, stVars, trVars, jsVars, skVars, hoVars, rqVars, icVars, hdVars, paVars, kmVars, slVars, crVars, ipVars>>
notHoVars == <<pmVars, rtVars, tcVars, dfVars, stVars, trVars, jsVars, skVars, opVars, rqVars, icVars, hdVars, paVars, kmVars, slVars, crVars, ipVars>>
notRqVars == <<pmVars, rtVars, tcVars, dfVars, stVars, trVars, jsVars, skVars, opVars, hoVars, icVars, hdVars, paVars, kmVars, slVars, crVars, ipVars>>
notIcVars == <<pmVars, rtVars, tcVars, dfVars, stVars, trVars, jsVars, skVars, opVars, hoVars, rqVars, hdVars, paVars, kmVars, slVars, crVars, ipVars>>
notHdVars == <<pmVars, rtVars, tcVars, dfVars, stVars, trVars, jsVars, skVars, opVars, hoVars, rqVars, icVars, paVars, kmVars, slVars, crVars, ipVars>>
notPaVars == <<pmVars, rtVars, tcVars, dfVars, stVars, trVars, jsVars, skVars, opVars, hoVars, rqVars, icVars, hdVars, kmVars, slVars, crVars, ipVars>>
notKmVars == <<pmVars, rtVars, tcVars, dfVars, stVars, trVars, jsVars, skVars, opVars, hoVars, rqVars, icVars, hdVars, paVars, slVars, crVars, ipVars>>
notSlVars == <<pmVars, rtVars, tcVars, dfVars, stVars, trVars, jsVars, skVars, opVars, hoVars, rqVars, icVars, hdVars, paVars, kmVars, crVars, ipVars>>
notCrVars == <<pmVars, rtVars, tcVars, dfVars, stVars, trVars, jsVars, skVars, opVars, hoVars, rqVars, icVars, hdVars, paVars, kmVars, slVars, ipVars>>
notIpVars == <<pmVars, rtVars, tcVars, dfVars, stVars, trVars, jsVars, skVars, opVars, hoVars, rqVars, icVars, hdVars, paVars, kmVars, slVars, crVars>>

None == <<>>
Some(x) == <<x>>
IsSome(o) == o # <<>>
Unwrap(o) == o[1]

\* The sequences over S of length at most n.
SeqUpTo(S, n) == UNION {[1..k -> S] : k \in 0..n}

(***************************************************************************)
(* Host message.  An instruction names its program (the EVM loader or      *)
(* another program), carries the EvmInstruction tag of its first data byte *)
(* and, as the outcome of the code the replay hands it to, whether that    *)
(* code succeeds: the builtin handler for a host instruction, the decoding *)
(* and command_trace_call for an EVM instruction.                          *)
(***************************************************************************)
MaxInstructions == 3

TracedTags == {"CallFromRawEthereumTX", "PartialCallOrContinueFromRawEthereumTX",
               "ExecuteTrxFromAccountDataIterativeV02",
               "ExecuteTrxFromAccountDataIterativeOrContinue"}

Instructions ==
    [program : {"other"}, tag : {"none"}, ok : BOOLEAN]
    \cup [program : {"evm_loader"}, tag : TracedTags, ok : BOOLEAN]
    \cup [program : {"evm_loader"}, tag : {"Cancel"}, ok : {TRUE}]

Messages == SeqUpTo(Instructions, MaxInstructions)

\* message.instructions[idx], idx counted from 0 as in the code
InstructionAt(idx) == message[idx + 1]

(***************************************************************************)
(* ProcessedMessage                                                        *)
(***************************************************************************)
Ok == [kind |-> "Ok"]
InstructionError(idx) == [kind |-> "Err", error |-> "InstructionError", at |-> idx]

\* ProcessedMessage::process_instruction: the handler's result for instruction idx
process_instruction(idx) ==
    IF InstructionAt(idx).ok THEN Ok ELSE InstructionError(idx)

\* the value exited takes in next() after process_instruction returned result
ExitedAfterMutant(result) == exited
ExitedAfter(result) == IF result.kind = "Err" THEN TRUE ELSE exited

MaxNextCalls == 5

\* impl Iterator for ProcessedMessage: one call of next()
IterNext ==
    /\ Len(returned) < MaxNextCalls
    /\ IF ~exited /\ current_idx < Len(message)
       THEN LET idx == current_idx
                result == process_instruction(idx)
            IN /\ current_idx' = current_idx + 1
               /\ executed' = Append(executed, idx)
               /\ exited' = ExitedAfter(result)
               /\ returned' = Append(returned, Some(result))
       ELSE /\ returned' = Append(returned, None)
            /\ UNCHANGED <<current_idx, exited, executed>>
    /\ UNCHANGED <<message, rtVars, notReplayVars>>

\* ProcessedMessage::new: current_idx 0, exited false
PmInit ==
    /\ message \in Messages
    /\ current_idx = 0
    /\ exited = FALSE
    /\ executed = <<>>
    /\ returned = <<>>

PmIdle ==
    /\ message = <<>>
    /\ current_idx = 0
    /\ exited = FALSE
    /\ executed = <<>>
    /\ returned = <<>>

RtIdle ==
    /\ rt_pc = "idle"
    /\ rt_i = 0
    /\ traced_call = None
    /\ rt_result = None

TcIdle ==
    /\ tc_in = None
    /\ tc_result = None

DfIdle ==
    /\ df_transfers = <<>>
    /\ df_result = None

StIdle ==
    /\ st_provider = "none"
    /\ st_snapshot = <<>>
    /\ st_phase = "idle"
    /\ block_number = None
    /\ block_timestamp = None
    /\ st_errors = 0
    /\ ethereum_accounts = <<>>
    /\ st_fetched = <<>>
    /\ st_misses = <<>>
    /\ st_queries = 0
    /\ st_last = None

TrIdle ==
    /\ tr_phase = "idle"
    /\ tr_frames = <<>>
    /\ tr_op = "none"
    /\ tr_reason = "none"
    /\ tr_steps = 0
    /\ tr_calltree = <<>>
    /\ vm = <<>>
    /\ tracer = <<>>
    /\ data = <<>>
    /\ return_value = <<>>
    /\ tr_out = None

JsIdle ==
    /\ js_tracer = None
    /\ js_calls = <<>>
    /\ js_steps = <<>>
    /\ js_phase = "idle"
    /\ js_trace = None
    /\ js_response = None

SkIdle ==
    /\ sk_stack = <<>>
    /\ sk_idx = 0
    /\ sk_result = None

OpIdle ==
    /\ op_call = None
    /\ op_a = <<>>
    /\ op_b = <<>>
    /\ op_result = None

HoIdle ==
    /\ ho_phase = "idle"
    /\ ho_keys = {}
    /\ account_data = <<>>
    /\ ho_applies = <<>>
    /\ ho_transfers = <<>>
    /\ ho_state_diff = None

RqIdle ==
    /\ rq_tx = <<>>
    /\ rq_phase = <<>>
    /\ rq_snapshot = <<>>
    /\ env_tracer = <<>>
    /\ env_tx = <<>>
    /\ env_vm = <<>>
    /\ rq_events = <<>>
    /\ rq_result = <<>>

IcIdle ==
    /\ invoke_stack = <<>>
    /\ ic_last = None

HdIdle ==
    /\ hd_data = <<>>
    /\ hd_result = None

PaIdle ==
    /\ pa_message = <<>>
    /\ pa_cells = <<>>
    /\ all_accounts = <<>>
    /\ pa_idx = 0
    /\ pa_exited = FALSE
    /\ pa_seen = <<>>
    /\ pa_last = None
    /\ pa_phase = "idle"
    /\ pa_calls = 0

KmIdle ==
    /\ km_message = <<>>
    /\ km_snapshot = <<>>
    /\ km_processed = <<>>
    /\ km_keyed = <<>>

SlIdle ==
    /\ sl_trace = <<>>
    /\ sl_logs = <<>>

CrIdle ==
    /\ cr_lookup = "idle"
    /\ cr_result = <<>>

IpIdle ==
    /\ ip_code = 0
    /\ ip_result = <<>>

InitIter == PmInit /\ RtIdle /\ TcIdle /\ DfIdle /\ StIdle /\ TrIdle /\ JsIdle /\ SkIdle /\ OpIdle /\ HoIdle
    /\ RqIdle /\ IcIdle /\ HdIdle /\ PaIdle /\ KmIdle /\ SlIdle /\ CrIdle /\ IpIdle
NextIter == IterNext
SpecIter == InitIter /\ [][NextIter]_vars

IsErr(o) == IsSome(o) /\ Unwrap(o).kind = "Err"

\* C5: driving a ProcessedMessage through next(), the instructions are executed
\* in index order 0, 1, 2, ..., each at most once and one per call that returns
\* Some; once a call returned Some(Err), exited is true and every later call
\* returns None (so nothing more is executed); once all instructions ran, next()
\* returns None.
C5_NextInOrderAndStopsOnError ==
    /\ executed = [k \in 1..Len(executed) |-> k - 1]
    /\ Len(executed) = Cardinality({j \in 1..Len(returned) : IsSome(returned[j])})
    /\ Len(executed) <= Len(message)
    /\ \A j \in 1..Len(returned) :
          /\ IsSome(returned[j]) =>
                returned[j] = Some(process_instruction(
                    Cardinality({k \in 1..(j - 1) : IsSome(returned[k])})))
          /\ IsErr(returned[j]) =>
                exited /\ \A k \in (j + 1)..Len(returned) : returned[k] = None
          /\ Cardinality({k \in 1..(j - 1) : IsSome(returned[k])}) = Len(message)
                => returned[j] = None

\* next() returned Some(Err) and then None while instructions were left unexecuted
C5_Witness ==
    \E j \in 1..(Len(returned) - 1) :
        /\ IsErr(returned[j])
        /\ returned[j + 1] = None
        /\ Len(executed) < Len(message)

(***************************************************************************)
(* replay_transaction (neon/mod.rs): the loop over message.instructions.   *)
(* The TracedCall command_trace_call returns for instruction i is the      *)
(* record [instr |-> i].                                                   *)
(***************************************************************************)
TracedCallOf(i) == [instr |-> i]
TraceError(i) == [kind |-> "Err", error |-> "TraceError", at |-> i]
OkValue(v) == [kind |-> "Ok", value |-> v]

\* traced_call = Some(traced): the new value of the local after a trace
AssignTracedCallMutant(old, traced) == IF IsSome(old) THEN old ELSE Some(traced)
AssignTracedCall(old, traced) == Some(traced)

\* what the loop does when processed.process_instruction(i) returned an error:
\* the ? operator returns it from replay_transaction
OnInstructionErrorMutant(err, call) == OkValue(call)
OnInstructionError(err, call) == err

\* program == config.evm_loader: decode by tag, command_trace_call, or skip
ReplayEvmInstruction ==
    /\ rt_pc = "loop"
    /\ rt_i < Len(message)
    /\ InstructionAt(rt_i).program = "evm_loader"
    /\ LET instr == InstructionAt(rt_i)
       IN IF instr.tag \notin TracedTags
          THEN \* unhandled neon instruction: continue
               /\ rt_i' = rt_i + 1
               /\ UNCHANGED <<rt_pc, traced_call, rt_result>>
          ELSE IF ~instr.ok
          THEN \* get_transaction_from_holder(..)?, transaction?, command_trace_call(..)?
               /\ rt_pc' = "done"
               /\ rt_result' = Some(TraceError(rt_i))
               /\ UNCHANGED <<rt_i, traced_call>>
          ELSE /\ traced_call' = AssignTracedCall(traced_call, TracedCallOf(rt_i))
               /\ rt_i' = rt_i + 1
               /\ UNCHANGED <<rt_pc, rt_result>>
    /\ UNCHANGED <<pmVars, notReplayVars>>

\* any other program: processed.process_instruction(i)?
ReplayHostInstruction ==
    /\ rt_pc = "loop"
    /\ rt_i < Len(message)
    /\ InstructionAt(rt_i).program # "evm_loader"
    /\ LET result == process_instruction(rt_i)
       IN /\ executed' = Append(executed, rt_i)
          /\ IF result.kind = "Err"
             THEN /\ rt_pc' = "done"
                  /\ rt_result' = Some(OnInstructionError(result, traced_call))
                  /\ UNCHANGED <<rt_i, traced_call>>
             ELSE /\ rt_i' = rt_i + 1
                  /\ UNCHANGED <<rt_pc, traced_call, rt_result>>
    /\ UNCHANGED <<message, current_idx, exited, returned, notReplayVars>>

\* Ok(traced_call.map(|call| meta.wrap(call)))
ReplayReturn ==
    /\ rt_pc = "loop"
    /\ rt_i = Len(message)
    /\ rt_pc' = "done"
    /\ rt_result' = Some(OkValue(traced_call))
    /\ UNCHANGED <<rt_i, traced_call, pmVars, notReplayVars>>

RtInit ==
    /\ rt_pc = "loop"
    /\ rt_i = 0
    /\ traced_call = None
    /\ rt_result = None

InitReplay == PmInit /\ RtInit /\ TcIdle /\ DfIdle /\ StIdle /\ TrIdle /\ JsIdle /\ SkIdle /\ OpIdle /\ HoIdle
    /\ RqIdle /\ IcIdle /\ HdIdle /\ PaIdle /\ KmIdle /\ SlIdle /\ CrIdle /\ IpIdle
NextReplay == ReplayEvmInstruction \/ ReplayHostInstruction \/ ReplayReturn
SpecReplay == InitReplay /\ [][NextReplay]_vars

\* the indices below n of the EVM instructions of a traced kind
TracedBelow(n) ==
    {i \in 0..(n - 1) : /\ InstructionAt(i).program = "evm_loader"
                        /\ InstructionAt(i).tag \in TracedTags}

SetMin(S) == CHOOSE x \in S : \A y \in S : x <= y
SetMax(S) == CHOOSE x \in S : \A y \in S : x >= y

ReturnedOk == rt_pc = "done" /\ Unwrap(rt_result).kind = "Ok"
ReturnedErr == rt_pc = "done" /\ Unwrap(rt_result).kind = "Err"

\* C3 as stated: when several EVM instructions of a traced kind each produced a
\* trace, replay_transaction returns the trace of the first of them.
C3_ReturnsFirstTrace ==
    (ReturnedOk /\ Cardinality(TracedBelow(Len(message))) >= 2)
        => Unwrap(rt_result).value = Some(TracedCallOf(SetMin(TracedBelow(Len(message)))))

\* C3 amended: replay_transaction returns the trace of the last EVM instruction
\* of a traced kind (the highest instruction index), and None when there is none.
C3_ReturnsLastTrace ==
    ReturnedOk =>
        Unwrap(rt_result).value =
            IF TracedBelow(Len(message)) = {} THEN None
            ELSE Some(TracedCallOf(SetMax(TracedBelow(Len(message)))))

\* a transaction with two traced EVM instructions was replayed to the end
C3_Witness ==
    /\ ReturnedOk
    /\ Cardinality(TracedBelow(Len(message))) >= 2
    /\ Unwrap(rt_result).value = Some(TracedCallOf(SetMax(TracedBelow(Len(message)))))

\* a host instruction failed at index rt_i after an EVM instruction was traced
HostFailedAfterTrace ==
    /\ rt_pc = "done"
    /\ rt_i < Len(message)
    /\ InstructionAt(rt_i).program # "evm_loader"
    /\ IsSome(traced_call)

\* C4 as stated: if a host instruction fails after an earlier EVM instruction
\* produced a trace, the remaining instructions are skipped and the request
\* returns that trace instead of an error.
C4_ReturnsTraceAfterHostFailure ==
    HostFailedAfterTrace =>
        /\ Unwrap(rt_result) = OkValue(traced_call)
        /\ \A k \in 1..Len(executed) : executed[k] <= rt_i

\* C4 amended: if a host instruction fails, the remaining instructions are
\* skipped and the request returns that instruction's error, also when an
\* earlier EVM instruction already produced a trace; the trace is not returned.
C4_ReturnsErrorAfterHostFailure ==
    (rt_pc = "done" /\ rt_i < Len(message) /\ InstructionAt(rt_i).program # "evm_loader")
        => /\ Unwrap(rt_result) = InstructionError(rt_i)
           /\ \A k \in 1..Len(executed) : executed[k] <= rt_i

\* the failing host instruction came after a trace and before other instructions
C4_Witness ==
    /\ HostFailedAfterTrace
    /\ rt_i + 1 < Len(message)
    /\ ReturnedErr

(***************************************************************************)
(* command_trace_call (neon/mod.rs).                                       *)
(*                                                                         *)
(* An error is an anyhow message: what failed, then the detail that was    *)
(* formatted into it ("bad account kind: 3" is what "bad account kind"     *)
(* with detail "3").  The executor (evm_loader::executor::Machine) is not  *)
(* part of these sources: the input says what it will do, namely whether   *)
(* Machine::new and call_begin / create_begin succeed, how many steps the  *)
(* execution needs before it exits, and with which reason, return data and *)
(* used gas.                                                               *)
(***************************************************************************)
STEP_LIMIT == 100000

Err(what, detail) == [kind |-> "Err", what |-> what, detail |-> detail]
Panic(what) == [kind |-> "Panic", what |-> what]

ExitReasons == {"Succeed", "Error", "Revert", "Fatal", "StepLimitReached"}

\* get_transaction_from_holder: a holder whose tag byte is not 0 is refused
HolderTagError(tag) == Err("bad account kind", ToString(tag))

\* executor.execute_n_steps(n): Ok(()) when the execution did not exit within n
\* steps, Err((result, exit_reason)) when it did
execute_n_steps(in, n) ==
    IF in.need <= n
    THEN [kind |-> "Err", result |-> in.result, exit_reason |-> in.exit_reason]
    ELSE [kind |-> "Ok"]

\* the match on execute_n_steps(100_000) inside tracer.using: Ok(()) is the
\* exhausted budget, logged "too many steps"
OnStepLimitMutant(in) == OkValue([result |-> in.result, exit_reason |-> "Fatal"])
OnStepLimit(in) == Err("bad account kind", "")

\* the closure given to tracer.using: begin the call or the create, then run
UsingClosure(in) ==
    IF IsSome(in.contract)
    THEN IF ~in.begin_ok THEN Err("call_begin", "ProgramError")
         ELSE LET r == execute_n_steps(in, STEP_LIMIT)
              IN IF r.kind = "Ok" THEN OnStepLimit(in)
                 ELSE OkValue([result |-> r.result, exit_reason |-> r.exit_reason])
    ELSE IF ~in.deployed_ok THEN Err("deployed_contract_id", "account")
         ELSE IF ~in.begin_ok THEN Err("create_begin", "ProgramError")
         ELSE LET r == execute_n_steps(in, STEP_LIMIT)
              IN IF r.kind = "Ok" THEN OnStepLimit(in)
                 ELSE OkValue([result |-> r.result, exit_reason |-> r.exit_reason])

\* prepare_state_diff(&storage, applies, transfers) of this execution
StateDiffOf(in) == [applies |-> in.applies]

\* let state_diff = match exit_reason { .. }: the arm
\* ExitReason::StepLimitReached => unreachable!() panics
Reached(state_diff) == [unreachable |-> FALSE, state_diff |-> state_diff]
Unreachable == [unreachable |-> TRUE]

StateDiffForMutant(in, exit_reason) ==
    CASE exit_reason \in {"Succeed", "Revert"} -> Reached(Some(StateDiffOf(in)))
      [] exit_reason \in {"Error", "Fatal"} -> Reached(None)
      [] exit_reason = "StepLimitReached" -> Unreachable
StateDiffFor(in, exit_reason) ==
    CASE exit_reason = "Succeed" -> Reached(Some(StateDiffOf(in)))
      [] exit_reason \in {"Error", "Revert", "Fatal"} -> Reached(None)
      [] exit_reason = "StepLimitReached" -> Unreachable

\* executor.used_gas().as_u64()
UsedGas(in) == in.used_gas

CommandTraceCall(in) ==
    IF ~in.machine_ok THEN Err("Machine::new", "ProgramError")
    ELSE LET r == UsingClosure(in)
         IN IF r.kind = "Err" THEN r
            ELSE LET exit_reason == r.value.exit_reason
                     matched == StateDiffFor(in, exit_reason)
                 IN IF matched.unreachable THEN Panic("unreachable")
                    ELSE OkValue([vm_trace |-> in.tracer.vm_trace,
                                  state_diff |-> matched.state_diff,
                                  traces |-> in.tracer.traces,
                                  result |-> in.tracer.result,
                                  used_gas |-> UsedGas(in),
                                  exit_reason |-> exit_reason])

\* one call of command_trace_call
TraceCall ==
    /\ tc_result = None
    /\ tc_result' = Some(CommandTraceCall(tc_in))
    /\ UNCHANGED <<tc_in, notTcVars>>

TraceCallInputs ==
    [contract : {None, Some("contract")},
     machine_ok : BOOLEAN,
     deployed_ok : BOOLEAN,
     begin_ok : BOOLEAN,
     need : {0, 1, STEP_LIMIT, STEP_LIMIT + 1},
     exit_reason : ExitReasons,
     result : {"empty", "data"},
     used_gas : {0, 21000},
     applies : {"applies"},
     tracer : {[vm_trace |-> "vm", traces |-> "traces", result |-> r] : r \in {"empty", "data"}}]

TcInit ==
    /\ tc_in \in {in \in TraceCallInputs : in.tracer.result = in.result}
    /\ tc_result = None

InitTraceCall == TcInit /\ PmIdle /\ RtIdle /\ DfIdle /\ StIdle /\ TrIdle /\ JsIdle /\ SkIdle /\ OpIdle /\ HoIdle
    /\ RqIdle /\ IcIdle /\ HdIdle /\ PaIdle /\ KmIdle /\ SlIdle /\ CrIdle /\ IpIdle
NextTraceCall == TraceCall
SpecTraceCall == InitTraceCall /\ [][NextTraceCall]_vars

TcDone == tc_result # None
TcResult == Unwrap(tc_result)
\* the execution started and did not exit within the step budget
BudgetExhausted ==
    /\ tc_in.machine_ok /\ tc_in.begin_ok
    /\ (tc_in.contract = None => tc_in.deployed_ok)
    /\ tc_in.need > STEP_LIMIT

MaxHolderTag == 3

\* the errors other than the exhausted budget that command_trace_call and its
\* caller replay_transaction return
OtherErrors ==
    {Err("Machine::new", "ProgramError"), Err("call_begin", "ProgramError"),
     Err("create_begin", "ProgramError"), Err("deployed_contract_id", "account")}
    \cup {HolderTagError(tag) : tag \in 1..MaxHolderTag}

\* C6: when the interpreter does not exit within the step budget,
\* command_trace_call returns an error that names something else than every
\* other error does, in particular than the holder-account decode error.
C6_BudgetErrorDistinct ==
    (TcDone /\ BudgetExhausted) =>
        /\ TcResult.kind = "Err"
        /\ \A e \in OtherErrors : TcResult.what # e.what

\* C7: a TracedCall is returned only when the interpreter exited within the step
\* budget, its exit_reason is never StepLimitReached, and on budget exhaustion
\* no TracedCall is returned.
C7_NoTraceOnStepLimit ==
    TcDone =>
        /\ TcResult.kind = "Ok" =>
              /\ tc_in.need <= STEP_LIMIT
              /\ TcResult.value.exit_reason # "StepLimitReached"
        /\ BudgetExhausted => TcResult.kind # "Ok"

\* the budget was exhausted and the call returned an error
C7_Witness == TcDone /\ BudgetExhausted /\ TcResult.kind = "Err"

\* C8: command_trace_call returns state_diff = Some exactly when exit_reason is
\* Succeed; for Error, Revert and Fatal state_diff is None while traces, result
\* and exit_reason are still returned.
C8_StateDiffIffSucceed ==
    (TcDone /\ TcResult.kind = "Ok") =>
        /\ IsSome(TcResult.value.state_diff) <=> TcResult.value.exit_reason = "Succeed"
        /\ TcResult.value.exit_reason = tc_in.exit_reason
        /\ TcResult.value.traces = tc_in.tracer.traces
        /\ TcResult.value.result = tc_in.tracer.result
        /\ tc_in.exit_reason \in {"Error", "Revert", "Fatal"} =>
              TcResult.value.state_diff = None

\* a reverted call returned its traces and result without a state diff
C8_Witness ==
    /\ TcDone /\ TcResult.kind = "Ok"
    /\ TcResult.value.exit_reason = "Revert"
    /\ TcResult.value.state_diff = None
    /\ TcResult.value.result = "data"

\* C26: the used_gas of every TracedCall command_trace_call returns is the used
\* gas the interpreter reports plus one.
C26_UsedGasPlusOne ==
    (TcDone /\ TcResult.kind = "Ok") =>
        TcResult.value.used_gas = tc_in.used_gas + 1

(***************************************************************************)
(* collect_balance_changes (neon/diff.rs).  A U256 is a natural number up  *)
(* to U256_MAX, scaled down from 2^256 - 1; its + panics on overflow and   *)
(* its - on underflow, as the U256 of the code does.                       *)
(***************************************************************************)
U256_MAX == 3
MaxTransfers == 2

Addresses == {"a1", "a2", "a3"}
TransferValues == {0, 1, 2}
Transfers == [source : Addresses, target : Addresses, value : TransferValues]

\* Sign::swap
SignSwap(sign) == IF sign = "Pos" THEN "Neg" ELSE "Pos"

\* apply_balance_update in collect_balance_changes; a value above U256_MAX is
\* the overflow of current.1 += value
apply_balance_update_mutant(current, sign, value) ==
    IF current.sign = sign
    THEN [sign |-> current.sign, value |-> current.value + value]
    ELSE IF current.value < value
    THEN [sign |-> current.sign, value |-> value - current.value]
    ELSE [sign |-> current.sign, value |-> current.value - value]
apply_balance_update(current, sign, value) ==
    IF current.sign = sign
    THEN [sign |-> current.sign, value |-> current.value + value]
    ELSE IF current.value < value
    THEN [sign |-> SignSwap(current.sign), value |-> value - current.value]
    ELSE [sign |-> current.sign, value |-> current.value - value]

Overflows(entry) == entry.value > U256_MAX

\* balance_diff.entry(address).or_insert((Sign::Pos, U256::zero()))
EntryOrInsert(balance_diff, address) ==
    IF address \in DOMAIN balance_diff THEN balance_diff[address]
    ELSE [sign |-> "Pos", value |-> 0]

\* balance_diff with address mapped to entry
Insert(balance_diff, address, entry) ==
    [a \in DOMAIN balance_diff \cup {address} |->
        IF a = address THEN entry ELSE balance_diff[a]]

\* the for_each of collect_balance_changes over the transfers left
RECURSIVE CollectFrom(_, _)
CollectFrom(balance_diff, transfers) ==
    IF transfers = <<>> THEN OkValue(balance_diff)
    ELSE LET transfer == Head(transfers)
             source == apply_balance_update(
                           EntryOrInsert(balance_diff, transfer.source),
                           "Neg", transfer.value)
             with_source == Insert(balance_diff, transfer.source, source)
             target == apply_balance_update(
                           EntryOrInsert(with_source, transfer.target),
                           "Pos", transfer.value)
         IN IF Overflows(source) \/ Overflows(target)
            THEN Panic("arithmetic operation overflow")
            ELSE CollectFrom(Insert(with_source, transfer.target, target),
                             Tail(transfers))

\* collect_balance_changes: the map starts empty
collect_balance_changes(transfers) == CollectFrom(<<>>, transfers)

\* one call of collect_balance_changes
CollectBalanceChanges ==
    /\ df_result = None
    /\ df_result' = Some(collect_balance_changes(df_transfers))
    /\ UNCHANGED <<df_transfers, notDfVars>>

DfInit ==
    /\ df_transfers \in SeqUpTo(Transfers, MaxTransfers)
    /\ df_result = None

InitDiff == DfInit /\ PmIdle /\ RtIdle /\ TcIdle /\ StIdle /\ TrIdle /\ JsIdle /\ SkIdle /\ OpIdle /\ HoIdle
    /\ RqIdle /\ IcIdle /\ HdIdle /\ PaIdle /\ KmIdle /\ SlIdle /\ CrIdle /\ IpIdle
NextDiff == CollectBalanceChanges
SpecDiff == InitDiff /\ [][NextDiff]_vars

\* the signed number an entry (Sign, U256) stands for
SignedValue(entry) == IF entry.sign = "Pos" THEN entry.value ELSE 0 - entry.value

\* the signed net of an address in a returned map, 0 for an address not in it
NetOf(balance_diff, address) ==
    IF address \in DOMAIN balance_diff THEN SignedValue(balance_diff[address]) ELSE 0

RECURSIVE SumOver(_, _)
SumOver(f, S) ==
    IF S = {} THEN 0
    ELSE LET x == CHOOSE y \in S : TRUE IN f[x] + SumOver(f, S \ {x})

\* what address received minus what it sent, over all the transfers
ReceivedMinusSent(transfers, address) ==
    SumOver([k \in 1..Len(transfers) |->
                (IF transfers[k].target = address THEN transfers[k].value ELSE 0)
                - (IF transfers[k].source = address THEN transfers[k].value ELSE 0)],
            1..Len(transfers))

TransferOrders(n) == {p \in [1..n -> 1..n] : \A i, j \in 1..n : p[i] = p[j] => i = j}
Reordered(transfers, p) == [k \in 1..Len(transfers) |-> transfers[p[k]]]

\* the map holds, for every address, its received minus sent, and the nets sum to 0
NetsAreReceivedMinusSent(transfers, balance_diff) ==
    /\ \A a \in Addresses : NetOf(balance_diff, a) = ReceivedMinusSent(transfers, a)
    /\ SumOver([a \in Addresses |-> NetOf(balance_diff, a)], Addresses) = 0

DfDone == df_result # None
DfResult == Unwrap(df_result)

MaxQueries == 2

EvmAddresses == {"e1", "e2"}
StorageIndexes == {0, 1}

\* what the snapshot holds under the host key derived from an EVM address:
\* nothing, an account EthereumAccount::from_account rejects (wrong owner, bad
\* tag), a user account, a contract account with its code account, or a
\* contract account whose code account is not in the snapshot
AccountKinds == {"missing", "wrong_owner", "bad_tag", "user", "contract", "code_missing"}
Snapshots == [EvmAddresses -> AccountKinds]

\* Pubkey::find_program_address(&[&[ACCOUNT_SEED_VERSION], address.as_bytes()], evm_loader)
AccountKey(address) == <<"account", address>>
\* ether_account.code_account of the account of address
CodeKey(address) == <<"code", address>>
HostKeys == {AccountKey(a) : a \in EvmAddresses} \cup {CodeKey(a) : a \in EvmAddresses}

\* EthereumAccount::from_account on the account fetched for address
EthereumAccount_from_account(kind, address) ==
    IF kind \in {"wrong_owner", "bad_tag"} THEN Err("from_account", kind)
    ELSE OkValue([balance |-> 5, trx_count |-> 1,
                  code_account |-> IF kind = "user" THEN None
                                   ELSE Some(CodeKey(address))])

\* EthereumContract::from_account(...).unwrap() for a hydrated contract
EthereumContract_from_account(address) ==
    [code |-> <<96, 0, 243>>, code_size |-> 3, valids |-> <<1>>,
     storage |-> [index \in {0} |-> 9]]

\* ether_accounts.insert(*address, SolanaAccount{..})
InsertAccountMutant(accounts, address, solana) == accounts
InsertAccount(accounts, address, solana) ==
    [a \in DOMAIN accounts \cup {address} |->
        IF a = address THEN solana ELSE accounts[a]]

\* create_acc_if_not_exists: the map afterwards, the host keys the provider was
\* asked for, and the value returned.  ok1 and ok2 say whether the provider
\* answers the first and the second get_account_at_slot with Ok.
create_acc_if_not_exists(accounts, snapshot, address, ok1, ok2) ==
    IF address \in DOMAIN accounts
    THEN [accounts |-> accounts, keys |-> <<>>, errors |-> 0, created |-> TRUE]
    ELSE IF ~ok1
    THEN [accounts |-> accounts, keys |-> <<AccountKey(address)>>, errors |-> 1,
          created |-> FALSE]
    ELSE IF snapshot[address] = "missing"
    THEN [accounts |-> accounts, keys |-> <<AccountKey(address)>>, errors |-> 0,
          created |-> FALSE]
    ELSE LET ether_account == EthereumAccount_from_account(snapshot[address], address)
         IN IF ether_account.kind = "Err"
            THEN [accounts |-> accounts, keys |-> <<AccountKey(address)>>,
                  errors |-> 0, created |-> FALSE]
            ELSE IF IsSome(ether_account.value.code_account)
            THEN IF ~ok2 \/ snapshot[address] = "code_missing"
                 THEN [accounts |-> accounts,
                       keys |-> <<AccountKey(address), CodeKey(address)>>,
                       errors |-> IF ok2 THEN 0 ELSE 1,
                       created |-> FALSE]
                 ELSE [accounts |-> InsertAccount(accounts, address,
                                      [account |-> ether_account.value,
                                       code_account |-> Some(CodeKey(address)),
                                       key |-> AccountKey(address)]),
                       keys |-> <<AccountKey(address), CodeKey(address)>>,
                       errors |-> 0,
                       created |-> TRUE]
            ELSE [accounts |-> InsertAccount(accounts, address,
                                  [account |-> ether_account.value,
                                   code_account |-> None,
                                   key |-> AccountKey(address)]),
                  keys |-> <<AccountKey(address)>>,
                  errors |-> 0,
                  created |-> TRUE]

\* ethereum_account_map_or after create_acc_if_not_exists; field names what f reads
ethereum_account_map_or(accounts, address, default, field) ==
    IF address \in DOMAIN accounts THEN accounts[address].account[field] ELSE default

\* ethereum_contract_map_or after create_acc_if_not_exists
ethereum_contract_map_or_mutant(accounts, address, default, field) ==
    EthereumContract_from_account(address)[field]
ethereum_contract_map_or(accounts, address, default, field) ==
    IF address \in DOMAIN accounts /\ IsSome(accounts[address].code_account)
    THEN EthereumContract_from_account(address)[field]
    ELSE default

\* keccak256_h256 and H256::default()
keccak256_h256(bytes) == [keccak256 |-> bytes]
H256_default == [zero |-> TRUE]

\* code_hash: ethereum_contract_map_or with H256::default() as the default
CodeHashMutant(accounts, address) ==
    IF address \in DOMAIN accounts /\ IsSome(accounts[address].code_account)
    THEN keccak256_h256(EthereumContract_from_account(address).code)
    ELSE keccak256_h256(<<>>)
CodeHash(accounts, address) ==
    IF address \in DOMAIN accounts /\ IsSome(accounts[address].code_account)
    THEN keccak256_h256(EthereumContract_from_account(address).code)
    ELSE H256_default

Queries == {"balance", "nonce", "code", "code_hash", "code_size", "exists",
            "storage", "valids"}

\* the answer of a query of the AccountStorage impl, once the account was looked up
AnswerOf(query, accounts, address, index) ==
    CASE query = "balance" -> ethereum_account_map_or(accounts, address, 0, "balance")
      [] query = "nonce" -> ethereum_account_map_or(accounts, address, 0, "trx_count")
      [] query = "code" -> ethereum_contract_map_or(accounts, address, <<>>, "code")
      [] query = "code_hash" -> CodeHash(accounts, address)
      [] query = "code_size" -> ethereum_contract_map_or(accounts, address, 0, "code_size")
      [] query = "exists" -> address \in DOMAIN accounts
      [] query = "storage" ->
            LET storage == ethereum_contract_map_or(accounts, address, <<>>, "storage")
            IN IF index \in DOMAIN storage THEN storage[index] ELSE 0
      [] query = "valids" -> ethereum_contract_map_or(accounts, address, <<>>, "valids")

\* one query: the lookup of the account, then the answer
Query(query, address, index, ok1, ok2) ==
    /\ st_phase = "serving"
    /\ st_queries < MaxQueries
    /\ st_provider = "Map" => ok1 /\ ok2
    /\ LET looked_up == create_acc_if_not_exists(ethereum_accounts, st_snapshot,
                                                 address, ok1, ok2)
       IN /\ ethereum_accounts' = looked_up.accounts
          /\ st_fetched' = [key \in HostKeys |->
                st_fetched[key]
                + Cardinality({k \in 1..Len(looked_up.keys) : looked_up.keys[k] = key})]
          /\ st_misses' = [st_misses EXCEPT
                ![address] = @ + IF looked_up.created THEN 0 ELSE 1]
          /\ st_errors' = st_errors + looked_up.errors
          /\ st_last' = Some([query |-> query, address |-> address, index |-> index,
                              answer |-> AnswerOf(query, looked_up.accounts,
                                                  address, index)])
    /\ st_queries' = st_queries + 1
    /\ UNCHANGED <<st_provider, st_snapshot, st_phase, block_number, block_timestamp,
                   notStVars>>

balance == \E a \in EvmAddresses, ok1, ok2 \in BOOLEAN : Query("balance", a, 0, ok1, ok2)
nonce == \E a \in EvmAddresses, ok1, ok2 \in BOOLEAN : Query("nonce", a, 0, ok1, ok2)
code == \E a \in EvmAddresses, ok1, ok2 \in BOOLEAN : Query("code", a, 0, ok1, ok2)
code_hash == \E a \in EvmAddresses, ok1, ok2 \in BOOLEAN : Query("code_hash", a, 0, ok1, ok2)
code_size == \E a \in EvmAddresses, ok1, ok2 \in BOOLEAN : Query("code_size", a, 0, ok1, ok2)
exists == \E a \in EvmAddresses, ok1, ok2 \in BOOLEAN : Query("exists", a, 0, ok1, ok2)
storage ==
    \E a \in EvmAddresses, index \in StorageIndexes, ok1, ok2 \in BOOLEAN :
        Query("storage", a, index, ok1, ok2)
valids == \E a \in EvmAddresses, ok1, ok2 \in BOOLEAN : Query("valids", a, 0, ok1, ok2)

\* the slots of the snapshot store; MapProvider is built for one of them
Slots == {1, 2}
\* DbProvider::get_slot when it answers
LatestSlot == 2
\* DbProvider::get_block_time(slot) when it answers
BlockTimeOf(slot) == 100 + slot

\* Provider::get_slot: Ok with the slot, or Err (DbProvider only)
get_slot(provider, map_slot, ok) ==
    IF provider = "Map" THEN OkValue(map_slot)
    ELSE IF ok THEN OkValue(LatestSlot) ELSE Err("get_slot", "DbError")

\* Provider::get_block_time: MapProvider answers Ok(0) for every slot
get_block_time(provider, slot, ok) ==
    IF provider = "Map" THEN OkValue(0)
    ELSE IF ok THEN OkValue(BlockTimeOf(slot)) ELSE Err("get_block_time", "DbError")

\* the slot EmulatorAccountStorage::new settles on: the one asked for, else the
\* provider's, else 0
SlotFor(asked, got) ==
    IF IsSome(asked) THEN Unwrap(asked)
    ELSE IF got.kind = "Ok" THEN got.value ELSE 0

\* EmulatorAccountStorage::new
New ==
    /\ st_phase = "new"
    /\ \E asked \in {None} \cup {Some(slot) : slot \in Slots}, map_slot \in Slots,
          slot_ok, time_ok \in BOOLEAN :
          LET got == get_slot(st_provider, map_slot, slot_ok)
              slot == SlotFor(asked, got)
              time == get_block_time(st_provider, slot, time_ok)
          IN /\ block_number' = Some(slot)
             /\ block_timestamp' = Some(IF time.kind = "Ok" THEN time.value ELSE 0)
             /\ st_errors' = st_errors
                   + (IF asked = None /\ got.kind = "Err" THEN 1 ELSE 0)
                   + (IF time.kind = "Err" THEN 1 ELSE 0)
    /\ st_phase' = "serving"
    /\ UNCHANGED <<st_provider, st_snapshot, ethereum_accounts, st_fetched, st_misses,
                   st_queries, st_last, notStVars>>

\* command_trace_call returns Ok(TracedCall) once the execution it ran over the
\* storage has exited
ReturnTracedCall ==
    /\ st_phase = "serving"
    /\ st_phase' = "returned"
    /\ UNCHANGED <<st_provider, st_snapshot, block_number, block_timestamp, st_errors,
                   ethereum_accounts, st_fetched, st_misses, st_queries, st_last,
                   notStVars>>

\* before EmulatorAccountStorage::new
StInit ==
    /\ st_provider \in {"Db", "Map"}
    /\ st_snapshot \in Snapshots
    /\ st_phase = "new"
    /\ block_number = None
    /\ block_timestamp = None
    /\ st_errors = 0
    /\ ethereum_accounts = <<>>
    /\ st_fetched = [key \in HostKeys |-> 0]
    /\ st_misses = [a \in EvmAddresses |-> 0]
    /\ st_queries = 0
    /\ st_last = None

InitStorage == StInit /\ PmIdle /\ RtIdle /\ TcIdle /\ DfIdle /\ TrIdle /\ JsIdle /\ SkIdle /\ OpIdle /\ HoIdle
    /\ RqIdle /\ IcIdle /\ HdIdle /\ PaIdle /\ KmIdle /\ SlIdle /\ CrIdle /\ IpIdle
NextStorage ==
    \/ New \/ ReturnTracedCall
    \/ balance \/ nonce \/ code \/ code_hash \/ code_size \/ exists
    \/ storage \/ valids
SpecStorage == InitStorage /\ [][NextStorage]_vars

\* C39: for the whole life of the storage block_number() is the slot it was
\* constructed for and block_timestamp() the block time of that slot, over
\* DbProvider and over MapProvider alike.
C39_BlockOfConstruction ==
    /\ [](st_phase \in {"serving", "returned"} =>
             /\ block_number # None
             /\ block_timestamp = Some(BlockTimeOf(Unwrap(block_number))))
    /\ [][st_phase # "new" => UNCHANGED <<block_number, block_timestamp>>]_vars

\* C10 as stated: over any sequence of queries the provider is asked for the host
\* account derived from an EVM address at most once, also when that account is
\* missing, has the wrong owner or cannot be parsed.
C10_FetchedAtMostOnce ==
    \A a \in EvmAddresses : st_fetched[AccountKey(a)] <= 1

\* C10 amended: only a successful hydration is memoized.  The provider is asked
\* for the host account of an address once for every lookup that failed (provider
\* error, account missing, rejected by from_account, code account missing or not
\* fetched) and once more for the lookup that hydrated it; after that it is never
\* asked for that address again.
C10_FetchedOncePerFailedLookup ==
    \A a \in EvmAddresses :
        /\ st_fetched[AccountKey(a)]
              = st_misses[a] + (IF a \in DOMAIN ethereum_accounts THEN 1 ELSE 0)
        /\ st_fetched[CodeKey(a)] <= st_fetched[AccountKey(a)]
        /\ a \in DOMAIN ethereum_accounts => st_snapshot[a] \in {"user", "contract"}
        /\ st_snapshot[a] \in {"missing", "wrong_owner", "bad_tag", "code_missing"}
              => st_fetched[AccountKey(a)] = st_misses[a]

\* a hydrated account was queried again: one fetch for the two queries
C10_Witness ==
    \E a \in EvmAddresses :
        /\ a \in DOMAIN ethereum_accounts
        /\ st_queries = 2
        /\ st_misses = [b \in EvmAddresses |-> 0]
        /\ \A b \in EvmAddresses \ {a} : st_fetched[AccountKey(b)] = 0
        /\ st_fetched[AccountKey(a)] = 1

StLast == Unwrap(st_last)

\* the identity default of a query: 0, the empty byte sequence, false
IsDefaultAnswer(query, answer) ==
    CASE query \in {"balance", "nonce", "storage", "code_size"} -> answer = 0
      [] query \in {"code", "valids"} -> answer = <<>>
      [] query = "exists" -> answer = FALSE
      [] OTHER -> TRUE

\* C11: for an address whose host account is absent from the snapshot, balance,
\* nonce, storage and code_size answer 0, code and valids the empty byte
\* sequence and exists false, on the first query and on every repetition,
\* whether or not the provider call itself succeeds; nothing is hydrated.
C11_MissingAccountDefaults ==
    (IsSome(st_last) /\ st_snapshot[StLast.address] = "missing") =>
        /\ IsDefaultAnswer(StLast.query, StLast.answer)
        /\ StLast.address \notin DOMAIN ethereum_accounts

\* an absent account was queried twice, last for its code
C11_Witness ==
    /\ IsSome(st_last)
    /\ st_snapshot[StLast.address] = "missing"
    /\ st_misses[StLast.address] = 2
    /\ StLast.query = "code"
    /\ StLast.answer = <<>>

\* the code of the account of address in the snapshot, empty when it has none
SnapshotCode(address) ==
    IF st_snapshot[address] = "contract"
    THEN EthereumContract_from_account(address).code
    ELSE <<>>

C13_ProviderFailureSurfaced ==
    st_phase = "returned" => st_errors = 0

(***************************************************************************)
(* Tracer (neon/tracer.rs).  The interpreter emits two streams of events:  *)
(* Step, StepResult, SLoad and SStore to the VM listener, and TransactCall,*)
(* TransactCreate, TransactCreate2, Call, Create, Suicide and Exit to the  *)
(* transaction listener.  ExecutiveVMTracer and ExecutiveTracer            *)
(* (types/ec/trace) are the builders the listeners drive.                  *)
(***************************************************************************)
MaxDepth == 2
MaxSteps == 5
\* the largest usize, scaled down from 2^64 - 1
USIZE_MAX == 7

Opcodes == {"ADD", "SLOAD", "SSTORE", "LOG0", "CALL", "CREATE",
            "RETURN", "REVERT", "INVALID", "SUICIDE"}
\* opcodes the core machine runs by itself, StepResult Ok
PlainOpcodes == {"ADD"}
\* opcodes that end their frame with StepResult Err(Exit(reason))
ExitOpcodes == {"RETURN", "REVERT", "INVALID"}
\* opcodes the core machine hands to the runtime, StepResult Err(Trap(opcode))
TrapOpcodes == {"SLOAD", "SSTORE", "LOG0", "CALL", "CREATE", "SUICIDE"}
\* opcodes that end their frame
FrameEndOpcodes == ExitOpcodes \cup {"SUICIDE"}

\* the exit reason of an opcode that ends its frame
ExitReasonOf(opcode) ==
    CASE opcode = "RETURN" -> "Succeed(Returned)"
      [] opcode = "REVERT" -> "Revert"
      [] opcode = "INVALID" -> "Error"
      [] opcode = "SUICIDE" -> "Succeed(Suicided)"

\* ExitReason::Succeed(..)
IsSucceed(reason) == reason \in {"Succeed(Returned)", "Succeed(Suicided)", "Succeed(Stopped)"}

\* pushed(opcode): INSTRUCTIONS[opcode].ret, None for an opcode not in the table
pushed(opcode) ==
    CASE opcode \in {"ADD", "SLOAD", "CALL", "CREATE"} -> Some(1)
      [] opcode \in {"SSTORE", "LOG0", "RETURN", "REVERT", "SUICIDE"} -> Some(0)
      [] OTHER -> None

\* ---- ExecutiveVMTracer: [depth, operations] ----
\* ExecutiveVMTracer::toplevel
toplevel == [depth |-> 0, operations |-> <<>>]
\* prepare_subtrace: one level deeper
prepare_subtrace(t) == [t EXCEPT !.depth = @ + 1]
\* done_subtrace: back one level; depth is a usize, so below 0 it wraps (where
\* the build does not check the subtraction)
done_subtrace(t) == [t EXCEPT !.depth = (@ - 1) % (USIZE_MAX + 1)]
\* trace_prepare_execute: a new operation of the current sub-trace
trace_prepare_execute(t, instruction) ==
    [t EXCEPT !.operations =
        Append(@, [instruction |-> instruction, depth |-> t.depth, executed |-> None])]
\* the last operation of the current sub-trace, 0 when it has none
LastOperation(t) ==
    LET own == {k \in 1..Len(t.operations) : t.operations[k].depth = t.depth}
    IN IF own = {} THEN 0 ELSE CHOOSE k \in own : \A j \in own : j <= k
\* trace_executed: the result of the last operation of the current sub-trace
trace_executed(t, stack_push) ==
    IF LastOperation(t) = 0 THEN t
    ELSE [t EXCEPT !.operations[LastOperation(t)].executed = Some(stack_push)]
\* trace_failed: the last operation of the current sub-trace failed
trace_failed(t) ==
    IF LastOperation(t) = 0 THEN t
    ELSE [t EXCEPT !.operations[LastOperation(t)].executed = Some("failed")]

\* ---- ExecutiveTracer: [traces, open], open the stack of actions not yet done ----
\* ExecutiveTracer::default
ExecutiveTracer_default == [traces |-> <<>>, open |-> <<>>]
\* the action the next trace is a child of, 0 at the root
OpenAction(t) == IF t.open = <<>> THEN 0 ELSE t.open[Len(t.open)]
\* prepare_trace_call / prepare_trace_create: a new open action under the open one
prepare_trace(t, action) ==
    [traces |-> Append(t.traces,
                    [action |-> action, parent |-> OpenAction(t), result |-> "open"]),
     open |-> Append(t.open, Len(t.traces) + 1)]
\* trace_suicide: a leaf under the open action
trace_suicide(t) ==
    [t EXCEPT !.traces =
        Append(@, [action |-> "Suicide", parent |-> OpenAction(t), result |-> "None"])]
\* last_action_type: the type of the open action
last_action_type(t) == IF t.open = <<>> THEN "None" ELSE t.traces[OpenAction(t)].action
\* done_trace_call / done_trace_create / done_trace_failed: the open action is done
done_trace(t, result) ==
    IF t.open = <<>> THEN t
    ELSE [traces |-> [t.traces EXCEPT ![OpenAction(t)].result = result],
          open |-> SubSeq(t.open, 1, Len(t.open) - 1)]

\* the path of child indexes from the root to trace k
RECURSIVE TraceAddress(_, _)
TraceAddress(traces, k) ==
    IF traces[k].parent = 0 THEN <<>>
    ELSE Append(TraceAddress(traces, traces[k].parent),
                Cardinality({j \in 1..(k - 1) : traces[j].parent = traces[k].parent}))

\* ExecutiveTracer::drain: the FlatTrace list
drain(t) ==
    [k \in 1..Len(t.traces) |->
        [action |-> t.traces[k].action,
         result |-> t.traces[k].result,
         subtraces |-> Cardinality({j \in 1..Len(t.traces) : t.traces[j].parent = k}),
         trace_address |-> TraceAddress(t.traces, k)]]

\* ---- VmTracer: [tracer, pushed, current, storage_accessed, trap_stack] ----
\* VmTracer::init
VmTracer_init ==
    [tracer |-> prepare_subtrace(toplevel), pushed |-> 0, current |-> None,
     storage_accessed |-> None, trap_stack |-> <<>>]

\* whether take_pending_trap returns a trap: the innermost one, if recorded at the
\* current depth
HasPendingTrap(v) ==
    /\ v.trap_stack # <<>>
    /\ v.trap_stack[Len(v.trap_stack)].depth = v.tracer.depth

\* handle_step_result
handle_step_result(v, pushed_count) ==
    [v EXCEPT !.tracer = trace_executed(@, pushed_count)]

\* VmTracer::gas, the one caller of trace_prepare_execute.  The gas listener that
\* called it is commented out, so no event reaches it and no action applies it.
VmGas(v) ==
    IF IsSome(v.current)
    THEN [v EXCEPT !.tracer = trace_prepare_execute(@, Unwrap(v.current).instruction),
                   !.current = None]
    ELSE v

\* VmTracer's handling of Step
VmStep(v, opcode) ==
    LET taken == IF HasPendingTrap(v)
                 THEN handle_step_result(
                          [v EXCEPT !.trap_stack = SubSeq(@, 1, Len(@) - 1)],
                          v.trap_stack[Len(v.trap_stack)].pushed)
                 ELSE v
    IN [taken EXCEPT !.current = Some([instruction |-> opcode]),
                     !.pushed = IF IsSome(pushed(opcode)) THEN Unwrap(pushed(opcode))
                                ELSE @]

\* VmTracer's handling of StepResult Err(Trap(opcode))
VmTrap(v, opcode) ==
    IF opcode \in {"SLOAD", "SSTORE"} THEN v
    ELSE LET trapped == [v EXCEPT !.trap_stack =
                            Append(@, [pushed |-> v.pushed, depth |-> v.tracer.depth])]
         IN IF opcode = "CALL"
            THEN [trapped EXCEPT !.tracer = prepare_subtrace(@)]
            ELSE trapped

\* VmTracer's handling of StepResult Err(Exit(reason))
VmExit(v, reason) ==
    [v EXCEPT !.tracer = done_subtrace(IF IsSucceed(reason) THEN trace_executed(@, 0)
                                       ELSE trace_failed(@)),
              !.pushed = 0]

\* VmTracer's handling of SLoad and SStore
VmStorage(v, opcode) ==
    [v EXCEPT !.storage_accessed = Some(<<"index", "value">>),
              !.tracer = trace_executed(@, IF opcode = "SLOAD" THEN 1 ELSE 0)]

\* Tracer's handling of Step, before VmTracer's: the storage access of the step
\* before goes to the last entry, then the entry of this step is pushed
DataOnStep(v, d, opcode) ==
    Append(IF IsSome(v.storage_accessed) /\ d # <<>>
           THEN [d EXCEPT ![Len(d)].storage = v.storage_accessed]
           ELSE d,
           [opcode |-> opcode, storage |-> None])

\* ---- JsTracer (js/mod.rs), the script tracer ----
MaxPc == 1
\* 2^32 scaled down: the range of the u32 that VmState::pc is.  A program counter
\* is an index into the code of the contract and stays below it.
U32_RANGE == 4
AsU32(x) == x % U32_RANGE

\* the opcode bytes the table has a mnemonic for, of those that occur here
INSTRUCTIONS ==
    (1 :> "ADD") @@ (2 :> "MUL") @@ (84 :> "SLOAD") @@ (85 :> "SSTORE") @@ (160 :> "LOG0")
    @@ (240 :> "CREATE") @@ (241 :> "CALL") @@ (243 :> "RETURN") @@ (253 :> "REVERT")
    @@ (255 :> "SUICIDE")
\* evm::Opcode of a mnemonic; INVALID (0xfe) is not in the table
OpcodeByte(name) ==
    IF name = "INVALID" THEN 254
    ELSE CHOOSE x \in DOMAIN INSTRUCTIONS : INSTRUCTIONS[x] = name

instruction_name(x) == IF x \in DOMAIN INSTRUCTIONS THEN Some(INSTRUCTIONS[x]) ELSE None

\* OpCode::to_string
OpCode_to_string(op) == Unwrap(instruction_name(op))

\* Log::get_pc
Log_get_pc(log) == log.vm_pc

\* A script: the callbacks it defines and those that throw when called.  Its step
\* pushes getPC() + ":" + op.toString() on its data and its result returns the
\* data; enter, exit and fault do nothing.
Callbacks == {"step", "enter", "exit", "fault", "result"}
Script(enter, exit, throws) ==
    [step |-> TRUE, fault |-> TRUE, result |-> TRUE, enter |-> enter, exit |-> exit,
     throws |-> throws]
dump_opcode_tracer == Script(FALSE, FALSE, {})
Scripts ==
    {dump_opcode_tracer,
     Script(TRUE, TRUE, {}),
     Script(FALSE, FALSE, {"step"}),
     Script(TRUE, TRUE, {"enter", "exit", "fault"}),
     Script(FALSE, FALSE, {"result"}),
     Script(TRUE, FALSE, {})}

\* JsTracer::new with init_code: [script, trace_frames, trace_steps, state,
\* transaction] and, of the script's side, state_obj (the object the callbacks get
\* their arguments from), data (the script's own list) and thrown (the callbacks
\* that failed, which nothing on the Rust side records)
JsTracer_new(script) ==
    IF script.enter # script.exit THEN Panic("must have enter & exit or none")
    ELSE OkValue([script |-> script,
                  trace_frames |-> script.enter /\ script.exit,
                  trace_steps |-> script.step,
                  state |-> None,
                  transaction |-> None,
                  state_obj |-> None,
                  data |-> <<>>,
                  thrown |-> <<>>])

\* init_state: needs the transaction capture_start has set; the new State replaces
\* the object the callbacks read; self.state is not set
init_stateMutant(js, pc, op, stack) ==
    IF js.transaction = None THEN Panic("Option::unwrap on None")
    ELSE OkValue([js EXCEPT !.state_obj =
                     IF IsSome(@) THEN @
                     ELSE Some([vm_pc |-> AsU32(pc), op |-> op, stack |-> stack])])
init_state(js, pc, op, stack) ==
    IF js.transaction = None THEN Panic("Option::unwrap on None")
    ELSE OkValue([js EXCEPT !.state_obj =
                     Some([vm_pc |-> AsU32(pc), op |-> op, stack |-> stack])])

\* ctx.call_prop(tracer_obj, n_args): the callback runs; a callback that is not
\* defined, that throws, or that reads a log that is not there, fails
CallFails(js, method) ==
    \/ ~js.script[method]
    \/ method \in js.script.throws
    \/ method = "step" /\ js.state_obj = None
call_prop(js, method) ==
    IF CallFails(js, method) THEN [js EXCEPT !.thrown = Append(@, method)]
    ELSE IF method = "step"
    THEN LET log == Unwrap(js.state_obj)
         IN [js EXCEPT !.data = Append(@, ToString(Log_get_pc(log)) \o ":"
                                          \o OpCode_to_string(log.op))]
    ELSE js

\* JSON.stringify and serde_json::from_str: a text that holds the value
JSON_stringify(v) == <<"json", v>>
serde_json_from_str(s) == s[2]

\* JsTracer::call: the result of call_prop is dropped.  With no_ret nothing is
\* returned; else what the call left on the script's stack is made a JSON text:
\* the value result returned, or after a failed call whatever is there, the thrown
\* value (leftover "error") or nothing a text can be made of (leftover "none"),
\* on which the unwrap panics.
call(js, no_ret, method, leftover) ==
    LET after == call_prop(js, method)
    IN IF no_ret THEN [kind |-> "Ok", js |-> after, ret |-> None]
       ELSE IF ~CallFails(js, method)
       THEN [kind |-> "Ok", js |-> after, ret |-> Some(JSON_stringify(after.data))]
       ELSE IF leftover = "error"
       THEN [kind |-> "Ok", js |-> after, ret |-> Some(JSON_stringify("thrown"))]
       ELSE [kind |-> "Panic", js |-> after, ret |-> None]

\* capture_start
capture_start(js, create) ==
    [js EXCEPT !.transaction = Some([ty |-> IF create THEN "CREATE" ELSE "CALL"])]

\* capture_end
capture_end(js) == js

\* capture_state
capture_state(js, pc, op, stack) ==
    LET inited == IF IsSome(js.state) THEN OkValue(js) ELSE init_state(js, pc, op, stack)
    IN IF inited.kind = "Panic" THEN inited
       ELSE OkValue(call(inited.value, TRUE, "step", "none").js)

\* capture_enter
capture_enter(js, typ) ==
    IF ~js.trace_frames THEN js
    ELSE IF instruction_name(typ) = None
    THEN Panic("Option::unwrap on None")
    ELSE call(js, TRUE, "enter", "none").js

\* capture_exit
capture_exit(js) ==
    IF ~js.trace_frames THEN js ELSE call(js, TRUE, "exit", "none").js

\* capture_fault
capture_fault(js) == call(js, TRUE, "fault", "none").js

\* get_result
get_result(js, leftover) ==
    LET called == call(js, FALSE, "result", leftover)
    IN IF called.kind = "Panic" THEN Panic("Result::unwrap on Err")
       ELSE IF IsSome(called.ret) THEN OkValue(serde_json_from_str(Unwrap(called.ret)))
       ELSE Err("no trace", "")

\* Tracer::into_traces: js_trace is get_result().ok()
IntoJsTrace(js, leftover) ==
    IF js = None THEN OkValue(None)
    ELSE LET r == get_result(Unwrap(js), leftover)
         IN IF r.kind = "Panic" THEN r
            ELSE IF r.kind = "Ok" THEN OkValue(Some(r.value))
            ELSE OkValue(None)

\* trace_transaction and trace_call: the script's trace if there is one, else the
\* struct logs
TraceAnswer(trace) ==
    IF IsSome(trace) THEN [kind |-> "JsTrace", value |-> Unwrap(trace)]
    ELSE [kind |-> "Logs", value |-> "ExecutionResult"]

\* the Vec the Step handler makes of the EVM stack: stack.peek(i) for i from
\* len - 1 down to 0, peek(0) being the top.  An EVM stack is a sequence with its
\* top last.
EvmPeek(stack, i) == stack[Len(stack) - i]
StackForJs(stack) == [k \in 1..Len(stack) |-> EvmPeek(stack, (Len(stack) - 1) - (k - 1))]

\* Tracer::with_js: the script tracer, if there is one, becomes after
with_js(method, after) ==
    /\ js_tracer' = IF js_tracer = None THEN None ELSE Some(after)
    /\ js_calls' = IF js_tracer = None THEN js_calls ELSE Append(js_calls, method)
    /\ UNCHANGED <<js_steps, js_phase, js_trace, js_response>>

\* ---- the interpreter ----
Frame(kind, path) == [kind |-> kind, path |-> path, children |-> 0]
TopFrame == tr_frames[Len(tr_frames)]
\* the path in the call tree of the next child of the innermost frame
ChildPath == Append(TopFrame.path, TopFrame.children)
\* the frames after the innermost one got one more child
WithChild == [tr_frames EXCEPT ![Len(tr_frames)].children = @ + 1]

\* TransactCall, TransactCreate, TransactCreate2: the root frame is entered
Transact(action) ==
    /\ tr_phase = "begin"
    /\ tracer' = prepare_trace(tracer, action)
    /\ tr_frames' = <<Frame(action, <<>>)>>
    /\ tr_calltree' = << <<>> >>
    /\ tr_phase' = "step"
    /\ with_js("capture_enter",
               capture_enter(Unwrap(js_tracer),
                             OpcodeByte(IF action = "Call" THEN "CALL" ELSE "CREATE")))
    /\ UNCHANGED <<tr_op, tr_reason, tr_steps, vm, data, return_value, tr_out, notTrVars>>

TransactCall == Transact("Call")
TransactCreate == Transact("Create")
TransactCreate2 == Transact("Create")

\* Step: the innermost frame is about to run opcode
Step(opcode) ==
    /\ tr_phase = "step"
    /\ opcode \in FrameEndOpcodes \/ tr_steps + Len(tr_frames) < MaxSteps
    /\ opcode \in {"CALL", "CREATE"} =>
          /\ Len(tr_frames) < MaxDepth
          /\ tr_steps + Len(tr_frames) + 1 < MaxSteps
    /\ data' = DataOnStep(vm, data, opcode)
    /\ tr_op' = opcode
    /\ tr_steps' = tr_steps + 1
    /\ LET state == IF js_tracer = None THEN OkValue(None)
                    ELSE capture_state(Unwrap(js_tracer), tr_steps, OpcodeByte(opcode),
                                       StackForJs(<<>>))
       IN IF state.kind = "Panic"
          THEN /\ tr_phase' = "panicked"
               /\ js_calls' = Append(js_calls, "capture_state")
               /\ UNCHANGED <<vm, js_tracer, js_steps, js_phase, js_trace, js_response>>
          ELSE /\ tr_phase' = "result"
               /\ vm' = VmStep([vm EXCEPT !.storage_accessed = None], opcode)
               /\ with_js("capture_state", state.value)
    /\ UNCHANGED <<tr_frames, tr_reason, tr_calltree, tracer, return_value, tr_out,
                   notTrVars>>

StepEvent == \E opcode \in Opcodes : Step(opcode)

\* StepResult Ok
StepResultOk ==
    /\ tr_phase = "result"
    /\ tr_op \in PlainOpcodes
    /\ vm' = handle_step_result(vm, vm.pushed)
    /\ tr_phase' = "step"
    /\ UNCHANGED <<tr_frames, tr_op, tr_reason, tr_steps, tr_calltree, tracer, data,
                   return_value, tr_out, notTrVars, jsVars>>

\* StepResult Err(Trap(opcode)); after a LOG the frame goes on by itself
StepResultTrap ==
    /\ tr_phase = "result"
    /\ tr_op \in TrapOpcodes
    /\ vm' = VmTrap(vm, tr_op)
    /\ tr_phase' = IF tr_op = "LOG0" THEN "step" ELSE "trap"
    /\ UNCHANGED <<tr_frames, tr_op, tr_reason, tr_steps, tr_calltree, tracer, data,
                   return_value, tr_out, notTrVars, jsVars>>

\* StepResult Err(Exit(reason)); done_subtrace at depth 0 either panics or wraps
StepResultExit ==
    /\ tr_phase = "result"
    /\ tr_op \in ExitOpcodes
    /\ \/ /\ vm' = VmExit(vm, ExitReasonOf(tr_op))
          /\ tr_reason' = ExitReasonOf(tr_op)
          /\ tr_phase' = "exit"
       \/ /\ vm.tracer.depth = 0
          /\ tr_phase' = "panicked"
          /\ UNCHANGED <<vm, tr_reason>>
    /\ UNCHANGED <<tr_frames, tr_op, tr_steps, tr_calltree, tracer, data,
                   return_value, tr_out, notTrVars, jsVars>>

\* the innermost frame has run past the end of its code: no Step event, a
\* StepResult Err(Exit(Succeed(Stopped))) and then the Exit of the frame
StepResultStopped ==
    /\ tr_phase = "step"
    /\ \/ /\ vm' = VmExit(vm, "Succeed(Stopped)")
          /\ tr_reason' = "Succeed(Stopped)"
          /\ tr_phase' = "exit"
       \/ /\ vm.tracer.depth = 0
          /\ tr_phase' = "panicked"
          /\ UNCHANGED <<vm, tr_reason>>
    /\ UNCHANGED <<tr_frames, tr_op, tr_steps, tr_calltree, tracer, data,
                   return_value, tr_out, notTrVars, jsVars>>

\* SLoad, SStore
SLoad ==
    /\ tr_phase = "trap"
    /\ tr_op = "SLOAD"
    /\ vm' = VmStorage(vm, tr_op)
    /\ tr_phase' = "step"
    /\ UNCHANGED <<tr_frames, tr_op, tr_reason, tr_steps, tr_calltree, tracer, data,
                   return_value, tr_out, notTrVars, jsVars>>

SStore ==
    /\ tr_phase = "trap"
    /\ tr_op = "SSTORE"
    /\ vm' = VmStorage(vm, tr_op)
    /\ tr_phase' = "step"
    /\ UNCHANGED <<tr_frames, tr_op, tr_reason, tr_steps, tr_calltree, tracer, data,
                   return_value, tr_out, notTrVars, jsVars>>

\* Call, Create: a nested frame is entered
Enter(opcode, action) ==
    /\ tr_phase = "trap"
    /\ tr_op = opcode
    /\ tracer' = prepare_trace(tracer, action)
    /\ tr_frames' = Append(WithChild, Frame(action, ChildPath))
    /\ tr_calltree' = Append(tr_calltree, ChildPath)
    /\ tr_phase' = "step"
    /\ with_js("capture_start", capture_start(Unwrap(js_tracer), action = "Create"))
    /\ UNCHANGED <<tr_op, tr_reason, tr_steps, vm, data, return_value, tr_out, notTrVars>>

Call == Enter("CALL", "Call")
Create == Enter("CREATE", "Create")

\* Suicide: the innermost frame destroys its contract and ends
Suicide ==
    /\ tr_phase = "trap"
    /\ tr_op = "SUICIDE"
    /\ tracer' = trace_suicide(tracer)
    /\ tr_frames' = WithChild
    /\ tr_calltree' = Append(tr_calltree, ChildPath)
    /\ tr_reason' = ExitReasonOf(tr_op)
    /\ tr_phase' = "exit"
    /\ UNCHANGED <<tr_op, tr_steps, vm, data, return_value, tr_out, notTrVars, jsVars>>

\* the transaction listener's handling of Exit
OnExit(t, reason) ==
    IF reason = "Succeed(Suicided)" THEN t
    ELSE IF IsSucceed(reason)
    THEN IF last_action_type(t) = "Call" THEN done_trace(t, "Call")
         ELSE done_trace(t, "Create")
    ELSE done_trace(t, "Failed")

\* Exit with return_value stored after the return of the Suicided case
ExitMutant ==
    /\ tr_phase = "exit"
    /\ return_value' = IF tr_reason = "Succeed(Suicided)" THEN return_value
                       ELSE <<tr_reason, Len(tr_frames)>>
    /\ tracer' = OnExit(tracer, tr_reason)
    /\ tr_frames' = SubSeq(tr_frames, 1, Len(tr_frames) - 1)
    /\ tr_phase' = IF Len(tr_frames) = 1 THEN "finished" ELSE "step"
    /\ UNCHANGED <<tr_op, tr_reason, tr_steps, tr_calltree, vm, data, tr_out, notTrVars, jsVars>>

\* Exit: the innermost frame is left
Exit ==
    /\ tr_phase = "exit"
    /\ return_value' = <<tr_reason, Len(tr_frames)>>
    /\ tracer' = OnExit(tracer, tr_reason)
    /\ tr_frames' = SubSeq(tr_frames, 1, Len(tr_frames) - 1)
    /\ tr_phase' = IF Len(tr_frames) = 1 THEN "finished" ELSE "step"
    /\ UNCHANGED <<tr_op, tr_reason, tr_steps, tr_calltree, vm, data, tr_out, notTrVars, jsVars>>

\* From<VMTrace> for Vec<StructLog>: one StructLog per operation
StructLogs(operations) ==
    [k \in 1..Len(operations) |->
        [op_name |-> operations[k].instruction, depth |-> operations[k].depth,
         gas |-> operations[k].executed, stack |-> None, storage |-> None]]

\* ExecutionResult::new: the lengths asserted equal, then each log takes the
\* stack and the storage of the entry at its index
ExecutionResult_new(traced) ==
    LET logs == StructLogs(traced.vm_trace)
        full == traced.full_trace_data
    IN IF Len(logs) # Len(full)
       THEN Panic("assertion failed: logs.len() == data.len()")
       ELSE OkValue([return_value |-> traced.result,
                     struct_logs |->
                        [k \in 1..Len(logs) |->
                            [logs[k] EXCEPT !.stack = Some(full[k].opcode),
                                            !.storage = full[k].storage]]])

\* Tracer::into_traces, as command_trace_call stores it in the TracedCall
IntoTraces ==
    /\ tr_phase = "finished"
    /\ \E leftover \in {"error", "none"} :
          LET trace == IntoJsTrace(js_tracer, leftover)
          IN IF trace.kind = "Panic"
             THEN /\ tr_phase' = "panicked"
                  /\ UNCHANGED <<tr_out, js_trace>>
             ELSE /\ tr_phase' = "traced"
                  /\ js_trace' = trace.value
                  /\ tr_out' = Some([vm_trace |-> vm.tracer.operations,
                                     traces |-> drain(tracer),
                                     full_trace_data |-> data,
                                     result |-> return_value,
                                     execution_result |-> None])
    /\ with_js("get_result", call_prop(Unwrap(js_tracer), "result"))
    /\ UNCHANGED <<tr_frames, tr_op, tr_reason, tr_steps, tr_calltree, vm, tracer, data,
                   return_value, notTrVars>>

\* ExecutionResult::new on the TracedCall
NewExecutionResult ==
    /\ tr_phase = "traced"
    /\ tr_out' = Some([Unwrap(tr_out) EXCEPT
                          !.execution_result = Some(ExecutionResult_new(Unwrap(tr_out)))])
    /\ tr_phase' = "done"
    /\ UNCHANGED <<tr_frames, tr_op, tr_reason, tr_steps, tr_calltree, vm, tracer, data,
                   return_value, notTrVars, jsVars>>

\* Tracer::new
TrInit ==
    /\ tr_phase = "begin"
    /\ tr_frames = <<>>
    /\ tr_op = "none"
    /\ tr_reason = "none"
    /\ tr_steps = 0
    /\ tr_calltree = <<>>
    /\ vm = VmTracer_init
    /\ tracer = ExecutiveTracer_default
    /\ data = <<>>
    /\ return_value = <<>>
    /\ tr_out = None

\* Tracer::new(js_tracer), the script tracer being JsTracer::new(code).unwrap()
\* if trace_code is given
JsInit ==
    /\ js_tracer \in {None} \cup {Some(JsTracer_new(script).value) :
                                    script \in {s \in Scripts : s.enter = s.exit}}
    /\ js_calls = <<>>
    /\ js_steps = <<>>
    /\ js_phase = "idle"
    /\ js_trace = None
    /\ js_response = None

InitTracer ==
    TrInit /\ JsInit /\ PmIdle /\ RtIdle /\ TcIdle /\ DfIdle /\ StIdle /\ SkIdle /\ OpIdle /\ HoIdle
    /\ RqIdle /\ IcIdle /\ HdIdle /\ PaIdle /\ KmIdle /\ SlIdle /\ CrIdle /\ IpIdle
NextTracer ==
    \/ TransactCall \/ TransactCreate \/ TransactCreate2
    \/ StepEvent \/ StepResultOk \/ StepResultTrap \/ StepResultExit \/ StepResultStopped
    \/ SLoad \/ SStore \/ Call \/ Create \/ Suicide \/ Exit
    \/ IntoTraces \/ NewExecutionResult
SpecTracer == InitTracer /\ [][NextTracer]_vars

TrTraced == tr_out # None
TrOut == Unwrap(tr_out)

\* C1: after a traced call the number of operations in vm_trace equals the number
\* of Step events and the length of full_trace_data, so that the assertion of
\* ExecutionResult::new holds and structLogs[i] carries the data of step i.
C1_OperationsMatchSteps ==
    tr_phase = "done" =>
        /\ Len(TrOut.vm_trace) = tr_steps
        /\ Len(TrOut.full_trace_data) = tr_steps
        /\ Unwrap(TrOut.execution_result).kind = "Ok"
        /\ LET logs == Unwrap(TrOut.execution_result).value.struct_logs
           IN /\ Len(logs) = tr_steps
              /\ \A k \in 1..Len(logs) :
                    logs[k].stack = Some(TrOut.full_trace_data[k].opcode)

RECURSIVE SumSubtraces(_)
SumSubtraces(traces) ==
    IF traces = <<>> THEN 0
    ELSE Head(traces).subtraces + SumSubtraces(Tail(traces))

\* C2: in the FlatTrace list of into_traces the subtraces sum to len(traces) - 1
\* and every trace_address is the path of child indexes of its entry in the call
\* tree, the list being in the order the entries were entered.
C2_TraceAddressIsCallTreePath ==
    TrTraced =>
        /\ Len(TrOut.traces) = Len(tr_calltree)
        /\ SumSubtraces(TrOut.traces) = Len(TrOut.traces) - 1
        /\ \A k \in 1..Len(TrOut.traces) :
              TrOut.traces[k].trace_address = tr_calltree[k]

\* C29: every action opened by TransactCall, TransactCreate, TransactCreate2, Call
\* or Create is closed by the Exit of its own frame and by no other: between two
\* events the open actions are those of the open frames, frame by frame, the
\* other actions are done, and after the Exit of the root frame no action is
\* open, also when a frame exits with Succeed(Suicided).
C29_ActionsClosedByOwnExit ==
    tr_phase \in {"step", "result", "trap", "exit", "finished", "traced", "done"} =>
        /\ Len(tracer.open) = Len(tr_frames)
        /\ \A k \in 1..Len(tr_frames) :
              k <= Len(tracer.open) => tr_calltree[tracer.open[k]] = tr_frames[k].path
        /\ \A k \in 1..Len(tracer.traces) :
              (tracer.traces[k].result = "open") <=>
                  (\E j \in 1..Len(tracer.open) : tracer.open[j] = k)

\* the depth VmTracer::init leaves, that of the root frame
RootDepth == VmTracer_init.tracer.depth
\* the open frames whose trap opened a sub-trace: those entered by a CALL
SubtracedFrames == {k \in 2..Len(tr_frames) : tr_frames[k].kind = "Call"}

\* C30: every done_subtrace of a StepResult exit closes a sub-trace opened for the
\* same frame: once a frame has exited the depth is what it was before the trap
\* that entered it, for CALL and for CREATE alike, so while a frame is about to
\* step the depth is the root depth plus one for every open frame whose trap
\* opened a sub-trace, and it is never below the root depth.
C30_SubtraceDepthRestored ==
    (tr_phase = "step" /\ tr_frames # <<>>) =>
        /\ vm.tracer.depth = RootDepth + Cardinality(SubtracedFrames)
        /\ vm.tracer.depth >= RootDepth

\* the pending traps of v that were recorded at the depth v is at
TrapsAtDepth(v) == {k \in 1..Len(v.trap_stack) : v.trap_stack[k].depth = v.tracer.depth}
\* s without its k-th element
RemoveAt(s, k) == SubSeq(s, 1, k - 1) \o SubSeq(s, k + 1, Len(s))
\* a Step event has been handled by both tracers
StepHandled == tr_steps' = tr_steps + 1 /\ tr_phase' = "result"

\* C31: a pending trap recorded at depth d is taken once, by the first Step at
\* which the VM tracer is back at depth d: a Step takes the pending trap recorded
\* at the depth the tracer is at, there is at most one such trap, and
\* handle_step_result gets the push count stashed in it; pending traps recorded
\* at other depths stay on the trap stack, so a Step inside a deeper sub-trace
\* leaves the trap of its parent alone.
C31_PendingTrapTakenAtItsDepth ==
    [][StepHandled =>
          /\ Cardinality(TrapsAtDepth(vm)) <= 1
          /\ TrapsAtDepth(vm) = {} => vm'.trap_stack = vm.trap_stack
          /\ \A k \in TrapsAtDepth(vm) :
                /\ vm'.trap_stack = RemoveAt(vm.trap_stack, k)
                /\ vm'.tracer = trace_executed(vm.tracer, vm.trap_stack[k].pushed)
          /\ TrapsAtDepth(vm') = {}]_vars
\* C32: once the execution is over, the entry of every step that ran SLOAD or
\* SSTORE holds the (index, value) of its SLoad / SStore event and no other entry
\* holds one, the last step of the execution included.
C32_StorageAtItsStep ==
    tr_phase \in {"finished", "traced", "done"} =>
        \A k \in 1..Len(data) :
            (data[k].opcode \in {"SLOAD", "SSTORE"}) <=> (data[k].storage # None)

\* C37: after every Exit event the tracer's return_value is the one of that
\* event, whatever its reason, so that once the call is over it is the one of
\* the Exit of the outermost frame.  (return_value stands for the bytes of the
\* event: the reason of the exit and the depth of the frame that exited.)
C37_ReturnValueOfLastExit ==
    /\ [][(tr_phase = "exit" /\ tr_phase' # "exit") =>
              return_value' = <<tr_reason, Len(tr_frames)>>]_vars
    /\ [](tr_phase \in {"finished", "traced", "done"} => return_value = <<tr_reason, 1>>)
\* the root frame called, the callee returned, and the root frame ended by SUICIDE
C37_Witness ==
    /\ tr_phase = "finished"
    /\ Len(data) = 3 /\ data[1].opcode = "CALL" /\ data[2].opcode = "RETURN"
    /\ data[3].opcode = "SUICIDE"
    /\ return_value = <<"Succeed(Suicided)", 1>>

\* ---- the script tracer by itself, called as an EvmLogger ----
MaxJsCalls == 3
Pcs == 0..MaxPc
JsOpcodes == {OpcodeByte("ADD"), OpcodeByte("MUL")}
JsTracing == js_phase = "tracing" /\ Len(js_calls) < MaxJsCalls
Js == Unwrap(js_tracer)

\* JsTracer::new(code).unwrap()
JsNew ==
    /\ js_phase = "new"
    /\ \E script \in Scripts :
          LET made == JsTracer_new(script)
          IN IF made.kind = "Panic"
             THEN js_phase' = "panicked" /\ UNCHANGED js_tracer
             ELSE js_phase' = "tracing" /\ js_tracer' = Some(made.value)
    /\ UNCHANGED <<js_calls, js_steps, js_trace, js_response, notJsVars>>

JsCalled(method, after) ==
    /\ JsTracing
    /\ js_tracer' = Some(after)
    /\ js_calls' = Append(js_calls, method)
    /\ UNCHANGED <<js_steps, js_phase, js_trace, js_response, notJsVars>>

CaptureStart == \E create \in BOOLEAN : JsCalled("capture_start", capture_start(Js, create))
CaptureEnter == JsCalled("capture_enter", capture_enter(Js, OpcodeByte("CALL")))
CaptureExit == JsCalled("capture_exit", capture_exit(Js))
CaptureFault == JsCalled("capture_fault", capture_fault(Js))
CaptureEnd == JsCalled("capture_end", capture_end(Js))

CaptureState ==
    /\ JsTracing
    /\ \E pc \in Pcs, op \in JsOpcodes :
          LET state == capture_state(Js, pc, op, StackForJs(<<>>))
          IN /\ js_steps' = Append(js_steps, <<pc, op>>)
             /\ IF state.kind = "Panic"
                THEN js_phase' = "panicked" /\ UNCHANGED js_tracer
                ELSE js_tracer' = Some(state.value) /\ UNCHANGED js_phase
    /\ js_calls' = Append(js_calls, "capture_state")
    /\ UNCHANGED <<js_trace, js_response, notJsVars>>

\* Tracer::into_traces at the end of the trace
GetResult ==
    /\ js_phase = "tracing"
    /\ \E leftover \in {"error", "none"} :
          LET trace == IntoJsTrace(js_tracer, leftover)
          IN IF trace.kind = "Panic"
             THEN js_phase' = "panicked" /\ UNCHANGED js_trace
             ELSE js_phase' = "traced" /\ js_trace' = trace.value
    /\ js_tracer' = Some(call_prop(Js, "result"))
    /\ js_calls' = Append(js_calls, "get_result")
    /\ UNCHANGED <<js_steps, js_response, notJsVars>>

\* trace_transaction, trace_call
Answer ==
    /\ js_phase = "traced"
    /\ js_response' = Some(TraceAnswer(js_trace))
    /\ js_phase' = "answered"
    /\ UNCHANGED <<js_tracer, js_calls, js_steps, js_trace, notJsVars>>

JsScriptInit ==
    /\ js_tracer = None
    /\ js_calls = <<>>
    /\ js_steps = <<>>
    /\ js_phase = "new"
    /\ js_trace = None
    /\ js_response = None

InitScript ==
    JsScriptInit /\ PmIdle /\ RtIdle /\ TcIdle /\ DfIdle /\ StIdle /\ TrIdle /\ SkIdle /\ OpIdle
    /\ HoIdle /\ RqIdle /\ IcIdle /\ HdIdle /\ PaIdle /\ KmIdle /\ SlIdle /\ CrIdle /\ IpIdle
NextScript ==
    \/ JsNew \/ CaptureStart \/ CaptureState \/ CaptureEnter \/ CaptureExit
    \/ CaptureFault \/ CaptureEnd \/ GetResult \/ Answer
SpecScript == InitScript /\ [][NextScript]_vars

\* C14: when a callback of the script failed (step, enter, exit, fault or result),
\* the answer of debug_traceTransaction / debug_traceCall is an error with the
\* message, and never the struct logs of a trace without script.
C14_ScriptFailureSurfaced ==
    js_phase = "answered" /\ Js.thrown # <<>> =>
        Unwrap(js_response).kind = "Error"

\* the number of calls of method made on the script tracer so far
CountCalls(method) == Cardinality({k \in 1..Len(js_calls) : js_calls[k] = method})

\* C15: with a script tracer, capture_start is called once, for the root call or
\* create (it is the first call made, at the TransactCall / TransactCreate event),
\* nested Call / Create events do not call it, and no capture_state runs before it.
C15_CaptureStartOnceAtRoot ==
    js_tracer # None /\ tr_phase \notin {"idle", "begin"} =>
        /\ js_calls # <<>> /\ js_calls[1] = "capture_start"
        /\ CountCalls("capture_start") = 1
        /\ \A k \in 1..Len(js_calls) :
              js_calls[k] = "capture_state" =>
                 \E j \in 1..(k - 1) : js_calls[j] = "capture_start"

\* C16: with a script that defines enter and exit, capture_enter is called once
\* when a nested frame is entered and capture_exit once when it ends, so the
\* enters not yet matched by an exit are the open nested frames, none is left at
\* the end of the trace, and capture_end has then been called once.
C16_EnterExitBalanced ==
    js_tracer # None /\ Js.trace_frames /\ tr_phase \notin {"idle", "begin"} =>
        /\ tr_frames # <<>> =>
              CountCalls("capture_enter") - CountCalls("capture_exit") = Len(tr_frames) - 1
        /\ tr_phase \in {"finished", "traced", "done"} =>
              /\ CountCalls("capture_enter") = CountCalls("capture_exit")
              /\ CountCalls("capture_end") = 1

\* the entry a step at pc with opcode op is to make in the list
EntryOf(step) == ToString(step[1]) \o ":" \o INSTRUCTIONS[step[2]]

\* C17: with a script whose step pushes getPC() + ":" + op.toString() and whose
\* result returns the list, the answer is the list with one entry per step, in
\* step order, the k-th being "<pc_k>:<mnemonic_k>".
C17_OneEntryPerStep ==
    js_phase = "answered" /\ Js.script.throws \cap {"step", "result"} = {} =>
        js_response = Some([kind |-> "JsTrace",
                            value |-> [k \in 1..Len(js_steps) |-> EntryOf(js_steps[k])]])

\* the trace of tests::tracer_test: capture_start, then ADD at 0 and MUL at 1
C17_Witness ==
    /\ js_phase = "answered"
    /\ Js.script = dump_opcode_tracer
    /\ js_steps = << <<0, OpcodeByte("ADD")>>, <<1, OpcodeByte("MUL")>> >>
    /\ Unwrap(js_response).value = <<"0:ADD", "1:MUL">>

\* ---- log.stack in the step callback ----
MaxStack == 3
StackValues == {1, 2, 3}

\* Stack::length
Stack_length(stack) == Len(stack)

\* Stack::peek: self.stack.get(idx), the Vec counting from 0
Stack_peek(stack, idx) ==
    IF idx < 0 \/ idx >= Stack_length(stack) THEN 0 ELSE stack[idx + 1]

\* a Step event with the EVM stack sk_stack, in whose capture_state the script's
\* step calls log.stack.length() and log.stack.peek(sk_idx)
PeekInStep ==
    /\ sk_result = None
    /\ LET scope_stack == StackForJs(sk_stack)
       IN sk_result' = Some([length |-> Stack_length(scope_stack),
                             peek |-> Stack_peek(scope_stack, sk_idx)])
    /\ UNCHANGED <<sk_stack, sk_idx, notSkVars>>

SkInit ==
    /\ sk_stack \in SeqUpTo(StackValues, MaxStack)
    /\ sk_idx \in (-1)..MaxStack
    /\ sk_result = None

InitStack ==
    SkInit /\ PmIdle /\ RtIdle /\ TcIdle /\ DfIdle /\ StIdle /\ TrIdle /\ JsIdle /\ OpIdle /\ HoIdle
    /\ RqIdle /\ IcIdle /\ HdIdle /\ PaIdle /\ KmIdle /\ SlIdle /\ CrIdle /\ IpIdle
NextStack == PeekInStep
SpecStack == InitStack /\ [][NextStack]_vars

\* C18: in the step callback log.stack.length() is the height of the EVM stack,
\* log.stack.peek(0) its top and peek(i) the element i below the top; an index
\* outside [0, length) gives 0.
C18_PeekCountsFromTop ==
    sk_result # None =>
        /\ Unwrap(sk_result).length = Len(sk_stack)
        /\ Unwrap(sk_result).peek =
              IF sk_idx < 0 \/ sk_idx >= Len(sk_stack) THEN 0
              ELSE sk_stack[Len(sk_stack) - sk_idx]

\* ---- trace_with_options (main.rs) ----
MaxOptions == 2
VMTRACE == 1
TRACE == 2
STATE_DIFF == 4

\* set & flag != 0 and set |= flag, on the u8 of ParsedTraceOptions
BitTest(set, flag) == (set \div flag) % 2 = 1
BitOr(set, flag) == IF BitTest(set, flag) THEN set ELSE set + flag

\* ParsedTraceOptions::parse
RECURSIVE ParseFrom(_, _)
ParseFrom(options_set, options) ==
    IF options = <<>> THEN options_set
    ELSE LET option == Head(options)
         IN ParseFrom(IF option = "vmTrace" THEN BitOr(options_set, VMTRACE)
                      ELSE IF option = "trace" THEN BitOr(options_set, TRACE)
                      ELSE IF option = "stateDiff" THEN BitOr(options_set, STATE_DIFF)
                      ELSE options_set,
                      Tail(options))
ParsedTraceOptions_parse(options) == ParseFrom(0, options)

vmtrace_enabled(parsed) == BitTest(parsed, VMTRACE)
trace_enabled(parsed) == BitTest(parsed, TRACE)
state_diff_enabled(parsed) == BitTest(parsed, STATE_DIFF)

\* Into::into, from the tracer's types to those of the RPC
Into(x) == <<"rpc", x>>
MapInto(o) == IF IsSome(o) THEN Some(Into(Unwrap(o))) ELSE None

\* trace_with_options
trace_with_optionsMutant(traced, parsed) ==
    [vm_trace |-> IF vmtrace_enabled(parsed) THEN MapInto(traced.vm_trace) ELSE None,
     trace |-> IF parsed # 0
               THEN [k \in 1..Len(traced.traces) |-> Into(traced.traces[k])]
               ELSE <<>>,
     state_diff |-> IF state_diff_enabled(parsed) THEN MapInto(traced.state_diff) ELSE None,
     output |-> Into(traced.result)]
trace_with_options(traced, parsed) ==
    [vm_trace |-> IF vmtrace_enabled(parsed) THEN MapInto(traced.vm_trace) ELSE None,
     trace |-> IF trace_enabled(parsed)
               THEN [k \in 1..Len(traced.traces) |-> Into(traced.traces[k])]
               ELSE <<>>,
     state_diff |-> IF state_diff_enabled(parsed) THEN MapInto(traced.state_diff) ELSE None,
     output |-> Into(traced.result)]

\* the flags a request may carry: the three options, one in another case, one unknown
OptionNames == {"vmTrace", "trace", "stateDiff", "Trace", "storage"}
TracedCalls ==
    [vm_trace : {None, Some("vm")}, traces : {<<>>, <<"t1", "t2">>},
     state_diff : {None, Some("sd")}, result : {"out"}]

\* two requests on the same TracedCall
TraceWithOptions ==
    /\ op_result = None
    /\ op_result' = Some([a |-> trace_with_options(op_call, ParsedTraceOptions_parse(op_a)),
                          b |-> trace_with_options(op_call, ParsedTraceOptions_parse(op_b))])
    /\ UNCHANGED <<op_call, op_a, op_b, notOpVars>>

OpInit ==
    /\ op_call \in TracedCalls
    /\ op_a \in SeqUpTo(OptionNames, MaxOptions)
    /\ op_b \in SeqUpTo(OptionNames, MaxOptions)
    /\ op_result = None

InitOptions ==
    OpInit /\ PmIdle /\ RtIdle /\ TcIdle /\ DfIdle /\ StIdle /\ TrIdle /\ JsIdle /\ SkIdle /\ HoIdle
    /\ RqIdle /\ IcIdle /\ HdIdle /\ PaIdle /\ KmIdle /\ SlIdle /\ CrIdle /\ IpIdle
NextOptions == TraceWithOptions
SpecOptions == InitOptions /\ [][NextOptions]_vars

\* whether flag is in the option list, letter for letter
HasFlag(options, flag) == \E k \in 1..Len(options) : options[k] = flag

\* C19: for one TracedCall and two option lists, vm_trace, trace and state_diff of
\* the two results are each the same whenever its own flag is in both lists or in
\* neither, whatever else the lists hold, and output is the call's result.
C19_OptionIsolation ==
    op_result # None =>
        LET ra == Unwrap(op_result).a
            rb == Unwrap(op_result).b
        IN /\ HasFlag(op_a, "vmTrace") = HasFlag(op_b, "vmTrace") => ra.vm_trace = rb.vm_trace
           /\ HasFlag(op_a, "trace") = HasFlag(op_b, "trace") => ra.trace = rb.trace
           /\ HasFlag(op_a, "stateDiff") = HasFlag(op_b, "stateDiff") =>
                 ra.state_diff = rb.state_diff
           /\ ra.output = Into(op_call.result)
           /\ rb.output = Into(op_call.result)

\* trace asked for alone, and asked for twice along with stateDiff... the trace is
\* the same, the state diff is in the second result only
C19_Witness ==
    /\ op_result # None
    /\ op_a = <<"trace">>
    /\ op_b = <<"stateDiff", "trace">>
    /\ Unwrap(op_result).a.trace = <<Into("t1"), Into("t2")>>
    /\ Unwrap(op_result).b.trace = Unwrap(op_result).a.trace
    /\ Unwrap(op_result).a.state_diff = None
    /\ Unwrap(op_result).b.state_diff = Some(Into("sd"))

\* ---- the hash-ordered collections of one replay ----
MaxMoves == 1
Pubkeys == {"k1", "k2", "k3"}
\* the keys the store has an account for at the slot, and that account
StoredKeys == {"k2", "k3"}
StoredAccount(key) == [lamports |-> IF key = "k2" THEN 1 ELSE 2, owner |-> "store"]
\* the keys get_accounts_for_tx has rows for, and the account of such a row
KeysOfTx == {"k1"}
AccountOfTx(key) == [lamports |-> 5, owner |-> "tx"]

\* The ways a HashSet or HashMap over S may iterate: each element once, in any
\* order.  An order over all of S gives the iteration of every subset of S.
HashOrders(S) ==
    {o \in [1..Cardinality(S) -> S] : \A i, j \in 1..Cardinality(S) : o[i] = o[j] => i = j}
IterationOf(keys, order) == SelectSeq(order, LAMBDA key : key \in keys)

\* HashMap::insert and BTreeMap::insert
MapInsertMutant(map, key, value) ==
    IF DOMAIN map # {} THEN map
    ELSE [k \in DOMAIN map \cup {key} |-> IF k = key THEN value ELSE map[k]]
MapInsert(map, key, value) ==
    [k \in DOMAIN map \cup {key} |-> IF k = key THEN value ELSE map[k]]

\* HashMap::remove
MapRemove(map, key) == [k \in DOMAIN map \ {key} |-> map[k]]

\* for_each(|(key, account)| account_data.insert(key, account)) over rows
RECURSIVE InsertRows(_, _)
InsertRows(map, rows) ==
    IF rows = <<>> THEN map
    ELSE InsertRows(MapInsert(map, Head(rows)[1], Head(rows)[2]), Tail(rows))

\* DbClient::get_accounts_for_tx: the rows of the transaction
get_accounts_for_tx(keys) ==
    LET found == IterationOf(keys \cap KeysOfTx, <<"k1", "k2", "k3">>)
    IN [k \in 1..Len(found) |-> <<found[k], AccountOfTx(found[k])>>]

\* DbClient::get_accounts_at_slot: one row for each of the keys asked for that
\* the store has
get_accounts_at_slot(pubkeys) ==
    LET found == SelectSeq(pubkeys, LAMBDA key : key \in StoredKeys)
    IN [k \in 1..Len(found) |-> <<found[k], StoredAccount(found[k])>>]

\* replay_transaction up to "done fetching accounts": the keys of the message are
\* collected in a HashSet, those the transaction has rows for are taken out, and
\* the rest is asked for in the order the set iterates
FetchedAccounts(keys, order) ==
    LET of_tx == get_accounts_for_tx(keys)
        accounts_to_get == keys \ {of_tx[k][1] : k \in 1..Len(of_tx)}
        with_tx == InsertRows(<<>>, of_tx)
    IN IF accounts_to_get = {} THEN with_tx
       ELSE InsertRows(with_tx,
                       get_accounts_at_slot(IterationOf(accounts_to_get, order)))

\* an address the snapshot has no account for: a contract the execution creates
NewAddress == "a0"
\* get_account of diff.rs: the PodAccount the storage answers for address, always
\* Some; address a3 holds the largest balance a U256 can, and for an address
\* without account the storage answers balance 0, nonce 0 and no code
get_account(address) ==
    Some([balance |-> IF address = "a3" THEN U256_MAX
                      ELSE IF address = NewAddress THEN 0 ELSE 1,
          nonce |-> 0,
          code |-> Some(<<>>)])

\* Diff::new of two values of a field
DiffOf(pre, post) == IF pre = post THEN <<"Same">> ELSE <<"Changed", pre, post>>

\* diff_pod: Born when there is no old account, Died when there is no new one,
\* else field by field, and nothing when no field differs
diff_pod(pre, post) ==
    IF pre = None /\ post = None THEN None
    ELSE IF pre = None
    THEN Some([balance |-> <<"Born", Unwrap(post).balance>>,
               nonce |-> <<"Born", Unwrap(post).nonce>>,
               code |-> <<"Born", Unwrap(post).code>>])
    ELSE IF post = None
    THEN Some([balance |-> <<"Died", Unwrap(pre).balance>>,
               nonce |-> <<"Died", Unwrap(pre).nonce>>,
               code |-> <<"Died", Unwrap(pre).code>>])
    ELSE IF pre = post THEN None
    ELSE Some([balance |-> DiffOf(Unwrap(pre).balance, Unwrap(post).balance),
               nonce |-> DiffOf(Unwrap(pre).nonce, Unwrap(post).nonce),
               code |-> DiffOf(Unwrap(pre).code, Unwrap(post).code)])

\* modify: the new pod has the old balance plus or minus the net of the address;
\* the + panics above U256_MAX and the - below 0
modify(address, new_nonce, new_code, net) ==
    LET old_pod == get_account(address)
        old_balance == IF IsSome(old_pod) THEN Unwrap(old_pod).balance ELSE 0
        new_balance == IF net = None THEN old_balance
                       ELSE IF Unwrap(net).sign = "Pos" THEN old_balance + Unwrap(net).value
                       ELSE old_balance - Unwrap(net).value
    IN IF new_balance > U256_MAX \/ new_balance < 0
       THEN Panic("arithmetic operation overflow")
       ELSE OkValue(diff_pod(old_pod, Some([balance |-> new_balance, nonce |-> new_nonce,
                                            code |-> new_code])))

\* state_diff.raw after the diff of address, if there is one, is inserted
WithDiff(raw, address, diff) ==
    IF IsSome(diff) THEN MapInsert(raw, address, Unwrap(diff)) ELSE raw

\* for apply in applies
RECURSIVE ApplyAll(_, _, _)
ApplyAll(raw, balance_diff, applies) ==
    IF applies = <<>> THEN OkValue([raw |-> raw, balance_diff |-> balance_diff])
    ELSE LET apply == Head(applies)
             net == IF apply.address \in DOMAIN balance_diff
                    THEN Some(balance_diff[apply.address]) ELSE None
             left == MapRemove(balance_diff, apply.address)
             diff == IF apply.kind = "Modify"
                     THEN modify(apply.address, apply.nonce, None, net)
                     ELSE OkValue(diff_pod(get_account(apply.address), None))
         IN IF diff.kind = "Panic" THEN diff
            ELSE ApplyAll(WithDiff(raw, apply.address, diff.value), left, Tail(applies))

\* for (address, balance) in balance_diff.into_iter(), addresses being what is
\* left of that iteration
RECURSIVE ApplyLeft(_, _, _)
ApplyLeft(raw, balance_diff, addresses) ==
    IF addresses = <<>> THEN OkValue(raw)
    ELSE LET address == Head(addresses)
             old == get_account(address)
             diff == IF IsSome(old)
                     THEN modify(address, Unwrap(old).nonce, Unwrap(old).code,
                                 Some(balance_diff[address]))
                     ELSE OkValue(None)
         IN IF diff.kind = "Panic" THEN diff
            ELSE ApplyLeft(WithDiff(raw, address, diff.value), balance_diff,
                           Tail(addresses))

\* prepare_state_diff, the map of the balance changes iterating in order
prepare_state_diff(applies, transfers, order) ==
    LET collected == collect_balance_changes(transfers)
    IN IF collected.kind = "Panic" THEN collected
       ELSE LET applied == ApplyAll(<<>>, collected.value, applies)
            IN IF applied.kind = "Panic" THEN applied
               ELSE ApplyLeft(applied.value.raw, applied.value.balance_diff,
                              IterationOf(DOMAIN applied.value.balance_diff, order))

\* the applies of an execution: none, or one Modify or Delete of an address
Applies ==
    {<<>>} \cup {<<[kind |-> kind, address |-> address, nonce |-> 1]>> :
                    kind \in {"Modify", "Delete"},
                    address \in Addresses \cup {NewAddress}}

\* replay_transaction fetches the accounts of the message
FetchAccounts ==
    /\ ho_phase = "fetch"
    /\ \E order \in HashOrders(Pubkeys) : account_data' = FetchedAccounts(ho_keys, order)
    /\ ho_phase' = "diff"
    /\ UNCHANGED <<ho_keys, ho_applies, ho_transfers, ho_state_diff, notHoVars>>

\* command_trace_call prepares the state diff of the execution
PrepareStateDiff ==
    /\ ho_phase = "diff"
    /\ \E order \in HashOrders(Addresses) :
          ho_state_diff' = Some(prepare_state_diff(ho_applies, ho_transfers, order))
    /\ ho_phase' = "done"
    /\ UNCHANGED <<ho_keys, account_data, ho_applies, ho_transfers, notHoVars>>

HoInit ==
    /\ ho_phase = "fetch"
    /\ ho_keys \in SUBSET Pubkeys
    /\ account_data = <<>>
    /\ ho_applies \in Applies
    /\ ho_transfers \in SeqUpTo(Transfers, MaxMoves)
    /\ ho_state_diff = None

InitHashOrder ==
    HoInit /\ PmIdle /\ RtIdle /\ TcIdle /\ DfIdle /\ StIdle /\ TrIdle /\ JsIdle /\ SkIdle /\ OpIdle
    /\ RqIdle /\ IcIdle /\ HdIdle /\ PaIdle /\ KmIdle /\ SlIdle /\ CrIdle /\ IpIdle
NextHashOrder == FetchAccounts \/ PrepareStateDiff
SpecHashOrder == InitHashOrder /\ [][NextHashOrder]_vars

\* C20: the snapshot fetched and the state diff prepared are those of every other
\* iteration order of accounts_to_get and of balance_diff, so two runs on the same
\* store and inputs give the same result.
C20_SameForEveryHashOrder ==
    /\ ho_phase \in {"diff", "done"} =>
          \A order \in HashOrders(Pubkeys) : account_data = FetchedAccounts(ho_keys, order)
    /\ ho_phase = "done" =>
          \A order \in HashOrders(Addresses) :
             Unwrap(ho_state_diff) = prepare_state_diff(ho_applies, ho_transfers, order)

\* two accounts were asked for by slot, and the balance changes of two addresses
\* were left for the last loop of prepare_state_diff, which diffed both
C20_Witness ==
    /\ ho_phase = "done"
    /\ ho_keys = {"k1", "k2", "k3"}
    /\ account_data["k1"].owner = "tx"
    /\ account_data["k2"].owner = "store" /\ account_data["k3"].owner = "store"
    /\ ho_applies = <<>>
    /\ Unwrap(ho_state_diff).kind = "Ok"
    /\ DOMAIN Unwrap(ho_state_diff).value = {"a1", "a2"}

HoRaw == Unwrap(ho_state_diff).value
DiffKinds(diff) == {diff.balance[1], diff.nonce[1], diff.code[1]}

\* C35: the Modify of an address the snapshot has no account for is diffed with
\* an absent old account, so balance, nonce and code are Born; the Modify of an
\* address that exists is diffed field by field, Same or Changed; a Delete gives
\* Died.
C35_BornChangedDied ==
    (ho_phase = "done" /\ Unwrap(ho_state_diff).kind = "Ok") =>
        \A k \in 1..Len(ho_applies) :
            LET apply == ho_applies[k]
            IN /\ apply.kind = "Delete" =>
                     /\ apply.address \in DOMAIN HoRaw
                     /\ DiffKinds(HoRaw[apply.address]) = {"Died"}
               /\ (apply.kind = "Modify" /\ apply.address = NewAddress) =>
                     /\ apply.address \in DOMAIN HoRaw
                     /\ DiffKinds(HoRaw[apply.address]) = {"Born"}
               /\ (apply.kind = "Modify" /\ apply.address \in Addresses
                                         /\ apply.address \in DOMAIN HoRaw) =>
                     DiffKinds(HoRaw[apply.address]) \subseteq {"Same", "Changed"}

(***************************************************************************)
(* Requests in flight at once.  A request is a synchronous call that runs  *)
(* from start to end on one thread: replay_transaction fetches its         *)
(* account_data, replays the host instruction on it and traces the EVM     *)
(* instruction in command_trace_call, inside tracer.using.  The listener   *)
(* slots are those of the environmental crate, one set per thread.         *)
(***************************************************************************)
Requests == {"r1", "r2"}
MaxEvents == 2
EventKinds == {"vm", "tx"}
ClosureOutcomes == {"Ok", "Err", "Panic"}

\* the store all requests read: the account k1, which every transaction writes
StoreAccounts == [k \in {"k1", "k2"} |-> 0]
\* a transaction: the value its host instruction leaves in k1 and how the closure
\* of tracer.using ends
RequestTxs == [write : {1, 2}, outcome : ClosureOutcomes]

\* environmental's using(protected, f): the slot holds protected while f runs
environmental_using(slot, thread, protected) == [slot EXCEPT ![thread] = Some(protected)]
\* ... and the value it held before is back when f is left, by return or by unwinding
environmental_restore(slot, thread, original) == [slot EXCEPT ![thread] = original]
\* environmental's with(f): f is applied to what the slot of this thread holds, if any
environmental_with(slot, thread) == slot[thread]

\* Proxy::event of both listener traits: tracer::with(|tracer| tracer.event(ev));
\* the tracer the event reached, if any
Proxy_eventMutant(thread, kind) ==
    IF kind = "vm" THEN environmental_with(env_tracer, thread) ELSE None
Proxy_event(thread, kind) == environmental_with(env_tracer, thread)

\* the interpreter emitting an event of a kind on a thread: with(|listener|
\* listener.event(ev)) on the slot of that kind
EmitEvent(thread, kind) ==
    LET listener == environmental_with(IF kind = "vm" THEN env_vm ELSE env_tx, thread)
    IN IF IsSome(listener) THEN Proxy_event(thread, kind) ELSE None

RqUnchanged(r) == UNCHANGED <<rq_tx, notRqVars>>

\* the fetch of account_data, a local of replay_transaction
FetchSnapshot(r) ==
    /\ rq_phase[r] = "fetch"
    /\ rq_snapshot' = [rq_snapshot EXCEPT ![r] = StoreAccounts]
    /\ rq_phase' = [rq_phase EXCEPT ![r] = "replay"]
    /\ UNCHANGED <<env_tracer, env_tx, env_vm, rq_events, rq_result>>
    /\ RqUnchanged(r)

\* processed.process_instruction(i) on the request's own ProcessedMessage
HostReplayMutant(r) ==
    /\ rq_phase[r] = "replay"
    /\ rq_snapshot' = [q \in Requests |->
                          IF rq_snapshot[q] = <<>> THEN rq_snapshot[q]
                          ELSE [rq_snapshot[q] EXCEPT !["k1"] = rq_tx[r].write]]
    /\ rq_phase' = [rq_phase EXCEPT ![r] = "trace"]
    /\ UNCHANGED <<env_tracer, env_tx, env_vm, rq_events, rq_result>>
    /\ RqUnchanged(r)
HostReplay(r) ==
    /\ rq_phase[r] = "replay"
    /\ rq_snapshot' = [rq_snapshot EXCEPT ![r]["k1"] = rq_tx[r].write]
    /\ rq_phase' = [rq_phase EXCEPT ![r] = "trace"]
    /\ UNCHANGED <<env_tracer, env_tx, env_vm, rq_events, rq_result>>
    /\ RqUnchanged(r)

\* Tracer::using, on entry: tracer::using(self, ..), transaction_tracing::using(&mut
\* Proxy, ..), vm_tracing::using(&mut Proxy, ..), then the closure
Tracer_using(r) ==
    /\ rq_phase[r] = "trace"
    /\ env_tracer' = environmental_using(env_tracer, r, r)
    /\ env_tx' = environmental_using(env_tx, r, "Proxy")
    /\ env_vm' = environmental_using(env_vm, r, "Proxy")
    /\ rq_phase' = [rq_phase EXCEPT ![r] = "inside"]
    /\ UNCHANGED <<rq_snapshot, rq_events, rq_result>>
    /\ RqUnchanged(r)

\* an event emitted on the thread of r, before, inside or after tracer.using
Emit(r) ==
    /\ rq_phase[r] \in {"trace", "inside", "after"}
    /\ Len(rq_events[r]) < MaxEvents
    /\ \E kind \in EventKinds :
          rq_events' = [rq_events EXCEPT ![r] =
              Append(@, [kind |-> kind, inside |-> rq_phase[r] = "inside",
                         reached |-> EmitEvent(r, kind)])]
    /\ UNCHANGED <<rq_phase, rq_snapshot, env_tracer, env_tx, env_vm, rq_result>>
    /\ RqUnchanged(r)

\* the events that reached the tracer of r, from whatever thread
EventsOfTracer(r) ==
    {<<q, k>> \in Requests \X (1..MaxEvents) :
        k <= Len(rq_events[q]) /\ rq_events[q][k].reached = Some(r)}

\* what the closure read and what the tracer collected, as command_trace_call
\* returns it: the snapshot the MapProvider is over and the events of the tracer
TracedResult(outcome, snapshot, events) ==
    IF outcome = "Ok" THEN OkValue([seen |-> snapshot, events |-> events])
    ELSE IF outcome = "Err" THEN Err("closure", "")
    ELSE Panic("closure")

\* Tracer::using, on exit: the closure returns its value, or unwinds, and the
\* three slots are restored innermost first
ClosureReturns(r) ==
    /\ rq_phase[r] = "inside"
    /\ env_vm' = environmental_restore(env_vm, r, None)
    /\ env_tx' = environmental_restore(env_tx, r, None)
    /\ env_tracer' = environmental_restore(env_tracer, r, None)
    /\ rq_result' = [rq_result EXCEPT ![r] =
          Some(TracedResult(rq_tx[r].outcome, rq_snapshot[r],
                            Cardinality(EventsOfTracer(r))))]
    /\ rq_phase' = [rq_phase EXCEPT ![r] = "after"]
    /\ UNCHANGED <<rq_snapshot, rq_events>>
    /\ RqUnchanged(r)

\* the request is answered
RequestDone(r) ==
    /\ rq_phase[r] = "after"
    /\ rq_phase' = [rq_phase EXCEPT ![r] = "done"]
    /\ UNCHANGED <<rq_snapshot, env_tracer, env_tx, env_vm, rq_events, rq_result>>
    /\ RqUnchanged(r)

RqInit ==
    /\ rq_tx \in [Requests -> RequestTxs]
    /\ rq_phase = [r \in Requests |-> "fetch"]
    /\ rq_snapshot = [r \in Requests |-> <<>>]
    /\ env_tracer = [r \in Requests |-> None]
    /\ env_tx = [r \in Requests |-> None]
    /\ env_vm = [r \in Requests |-> None]
    /\ rq_events = [r \in Requests |-> <<>>]
    /\ rq_result = [r \in Requests |-> None]

InitRequests ==
    RqInit /\ PmIdle /\ RtIdle /\ TcIdle /\ DfIdle /\ StIdle /\ TrIdle /\ JsIdle /\ SkIdle
    /\ OpIdle /\ HoIdle /\ IcIdle /\ HdIdle /\ PaIdle /\ KmIdle /\ SlIdle /\ CrIdle /\ IpIdle
NextRequests ==
    \E r \in Requests :
        \/ FetchSnapshot(r) \/ HostReplay(r) \/ Tracer_using(r) \/ Emit(r)
        \/ ClosureReturns(r) \/ RequestDone(r)
SpecRequests == InitRequests /\ [][NextRequests]_vars

\* C21: tracer.using registers the tracer for exactly the time of its closure:
\* every VM and transaction event emitted inside reaches this tracer; once using
\* has returned, with a result, an error or by unwinding, none of the three slots
\* of the thread holds a listener and an event emitted later reaches no tracer.
C21_RegisteredExactlyInsideUsing ==
    \A r \in Requests :
        /\ \A k \in 1..Len(rq_events[r]) :
              rq_events[r][k].reached =
                  IF rq_events[r][k].inside THEN Some(r) ELSE None
        /\ rq_phase[r] \in {"after", "done"} =>
              env_tracer[r] = None /\ env_tx[r] = None /\ env_vm[r] = None

\* the closure of a request ended with an error after a transaction event reached
\* its tracer; a VM event emitted later on its thread reached none, while the
\* tracer of the other request was registered on the other thread
C21_Witness ==
    \E r \in Requests, q \in Requests :
        /\ q # r
        /\ rq_phase[r] = "after"
        /\ rq_phase[q] = "inside"
        /\ Unwrap(rq_result[r]).kind = "Err"
        /\ Len(rq_events[r]) = 2
        /\ rq_events[r][1] = [kind |-> "tx", inside |-> TRUE, reached |-> Some(r)]
        /\ rq_events[r][2] = [kind |-> "vm", inside |-> FALSE, reached |-> None]

\* what a request returns when it runs alone, having emitted n events inside
AloneResult(tx, n) ==
    TracedResult(tx.outcome, [StoreAccounts EXCEPT !["k1"] = tx.write], n)
InsideEvents(r) == {k \in 1..Len(rq_events[r]) : rq_events[r][k].inside}

\* C22: two requests in flight at once share no mutable state: the working
\* snapshot of a request holds its own host writes only, the events its thread
\* emits reach no tracer but its own, and what it returns is what it returns when
\* run alone.
C22_RequestsIsolated ==
    \A r \in Requests :
        /\ rq_phase[r] \in {"trace", "inside", "after", "done"} =>
              rq_snapshot[r] = [StoreAccounts EXCEPT !["k1"] = rq_tx[r].write]
        /\ rq_phase[r] = "replay" => rq_snapshot[r] = StoreAccounts
        /\ \A k \in 1..Len(rq_events[r]) : rq_events[r][k].reached \in {None, Some(r)}
        /\ IsSome(rq_result[r]) =>
              Unwrap(rq_result[r]) = AloneResult(rq_tx[r], Cardinality(InsideEvents(r)))

\* both requests were inside tracer.using at once, with different host writes, and
\* both returned a trace with an event
C22_Witness ==
    /\ rq_tx["r1"].write # rq_tx["r2"].write
    /\ \A r \in Requests :
          /\ rq_phase[r] = "done"
          /\ Unwrap(rq_result[r]).kind = "Ok"
          /\ Unwrap(rq_result[r]).value.events >= 1
          /\ Unwrap(rq_result[r]).value.seen["k1"] = rq_tx[r].write

(***************************************************************************)
(* LightIC (replay/processor.rs): the invoke stack of one instruction,     *)
(* from the frame process_instruction pushes, under any pushes and pops of *)
(* the programs it runs.                                                   *)
(***************************************************************************)
Programs == {"p1", "p2", "p3"}
\* BpfComputeBudget::default().max_invoke_depth
max_invoke_depth == 4

IcErr(error) == [kind |-> "Err", error |-> error]

\* LightIC::push; found: every key of keyed_accounts is one of self.accounts
pushMutantDepth(stack, key, found) ==
    IF Len(stack) >= max_invoke_depth
    THEN [result |-> IcErr("CallDepth"), stack |-> stack]
    ELSE IF (\E k \in 1..Len(stack) : stack[k] = key)
            /\ ~(stack # <<>> /\ stack[Len(stack)] = key)
    THEN [result |-> IcErr("ReentrancyNotAllowed"), stack |-> stack]
    ELSE IF ~found
    THEN [result |-> IcErr("InvalidArgument"), stack |-> stack]
    ELSE [result |-> Ok, stack |-> Append(stack, key)]
pushMutantReentrancy(stack, key, found) ==
    IF Len(stack) > max_invoke_depth
    THEN [result |-> IcErr("CallDepth"), stack |-> stack]
    ELSE IF (\E k \in 1..Len(stack) : stack[k] = key)
            /\ ~(stack # <<>> /\ stack[1] = key)
    THEN [result |-> IcErr("ReentrancyNotAllowed"), stack |-> stack]
    ELSE IF ~found
    THEN [result |-> IcErr("InvalidArgument"), stack |-> stack]
    ELSE [result |-> Ok, stack |-> Append(stack, key)]
push(stack, key, found) ==
    LET contains == \E k \in 1..Len(stack) : stack[k] = key
        is_last == stack # <<>> /\ stack[Len(stack)] = key
    IN IF Len(stack) > max_invoke_depth
       THEN [result |-> IcErr("CallDepth"), stack |-> stack]
       ELSE IF contains /\ ~is_last
       THEN [result |-> IcErr("ReentrancyNotAllowed"), stack |-> stack]
       ELSE IF ~found
       THEN [result |-> IcErr("InvalidArgument"), stack |-> stack]
       ELSE [result |-> Ok, stack |-> Append(stack, key)]

\* LightIC::pop: Vec::pop, nothing on an empty stack
pop(stack) == IF stack = <<>> THEN stack ELSE SubSeq(stack, 1, Len(stack) - 1)

\* LightIC::invoke_depth
invoke_depth(stack) == Len(stack)

\* a program calls invoke_context.push(key, keyed_accounts)
Push ==
    /\ \E key \in Programs, found \in BOOLEAN :
          LET pushing == push(invoke_stack, key, found)
          IN /\ invoke_stack' = pushing.stack
             /\ ic_last' = Some([op |-> "push", key |-> key, before |-> invoke_stack,
                                 result |-> pushing.result])
    /\ UNCHANGED notIcVars

\* a program calls invoke_context.pop()
Pop ==
    /\ invoke_stack' = pop(invoke_stack)
    /\ ic_last' = Some([op |-> "pop", key |-> "none", before |-> invoke_stack,
                        result |-> Ok])
    /\ UNCHANGED notIcVars

\* ProcessedMessage::process_instruction: the LightIC with the frame of the
\* instruction's program
IcInit ==
    /\ invoke_stack \in {<<program_id>> : program_id \in Programs}
    /\ ic_last = None

InitInvoke ==
    IcInit /\ PmIdle /\ RtIdle /\ TcIdle /\ DfIdle /\ StIdle /\ TrIdle /\ JsIdle /\ SkIdle
    /\ OpIdle /\ HoIdle /\ RqIdle /\ HdIdle /\ PaIdle /\ KmIdle /\ SlIdle /\ CrIdle /\ IpIdle
NextInvoke == Push \/ Pop
SpecInvoke == InitInvoke /\ [][NextInvoke]_vars

IcLast == Unwrap(ic_last)
PushedLast == IsSome(ic_last) /\ IcLast.op = "push"
OnStack(stack, key) == \E k \in 1..Len(stack) : stack[k] = key
IsTop(stack, key) == stack # <<>> /\ stack[Len(stack)] = key

\* C23 as claimed: the invoke stack never holds more than max_invoke_depth frames.
C23_AtMostMaxInvokeDepth ==
    invoke_depth(invoke_stack) <= max_invoke_depth

\* C23, amended: the invoke stack never holds more than max_invoke_depth + 1
\* frames: a push on a stack of more than max_invoke_depth frames fails with
\* CallDepth and leaves the stack as it was, and no other push fails with
\* CallDepth.
C23_AtMostMaxInvokeDepthPlusOne ==
    /\ invoke_depth(invoke_stack) <= max_invoke_depth + 1
    /\ PushedLast =>
          /\ IcLast.result = IcErr("CallDepth") <=>
                invoke_depth(IcLast.before) > max_invoke_depth
          /\ IcLast.result.kind = "Err" => invoke_stack = IcLast.before

\* a push on a stack of max_invoke_depth frames went through, and the push after
\* it failed with CallDepth
C23_Witness ==
    /\ PushedLast
    /\ IcLast.result = IcErr("CallDepth")
    /\ invoke_depth(invoke_stack) = max_invoke_depth + 1

\* C24 as claimed: a push succeeds only if its key is not on the stack or is the
\* key of the top frame; a push of a key that is on the stack below a different
\* top frame fails with ReentrancyNotAllowed and leaves the stack as it was.
C24_ReentrancyNotAllowed ==
    PushedLast =>
        /\ IcLast.result = Ok =>
              ~OnStack(IcLast.before, IcLast.key) \/ IsTop(IcLast.before, IcLast.key)
        /\ OnStack(IcLast.before, IcLast.key) /\ ~IsTop(IcLast.before, IcLast.key) =>
              /\ IcLast.result = IcErr("ReentrancyNotAllowed")
              /\ invoke_stack = IcLast.before

\* C24, amended: such a push fails and leaves the stack as it was; it fails with
\* ReentrancyNotAllowed, unless the stack holds more than max_invoke_depth frames
\* already, when it fails with CallDepth as every push does.
C24_ReentrancyOrCallDepth ==
    PushedLast =>
        /\ IcLast.result = Ok =>
              ~OnStack(IcLast.before, IcLast.key) \/ IsTop(IcLast.before, IcLast.key)
        /\ OnStack(IcLast.before, IcLast.key) /\ ~IsTop(IcLast.before, IcLast.key) =>
              /\ IcLast.result =
                    IF invoke_depth(IcLast.before) > max_invoke_depth
                    THEN IcErr("CallDepth") ELSE IcErr("ReentrancyNotAllowed")
              /\ invoke_stack = IcLast.before

\* the key of the caller's caller was pushed and refused as a reentrancy, and a
\* program that called itself was let in
C24_Witness ==
    /\ PushedLast
    /\ IcLast.result = IcErr("ReentrancyNotAllowed")
    /\ Len(invoke_stack) = 3
    /\ invoke_stack[2] = invoke_stack[3]
    /\ IcLast.key = invoke_stack[1]
    /\ invoke_stack[1] # invoke_stack[2]

(***************************************************************************)
(* get_transaction_from_holder (neon/mod.rs) and the holder arm of         *)
(* replay_transaction.  The layout is [tag:1][signature:65][trx_len:8 little *)
(* endian][trx]; the lengths of the signature and of trx_len are scaled    *)
(* down, as is the length of the data.                                     *)
(***************************************************************************)
SIGNATURE_LEN == 2
TRX_LEN_BYTES == 1
MaxDataLen == 5
HolderBytes == {0, 1, 2}

\* slice::split_at(mid): the two parts, or a panic when mid is past the end
split_at(bytes, mid) ==
    IF mid > Len(bytes) THEN Panic("assertion failed: mid <= self.len()")
    ELSE OkValue(<<SubSeq(bytes, 1, mid), SubSeq(bytes, mid + 1, Len(bytes))>>)

\* u64::from_le_bytes
RECURSIVE from_le_bytes(_)
from_le_bytes(bytes) ==
    IF bytes = <<>> THEN 0 ELSE Head(bytes) + 256 * from_le_bytes(Tail(bytes))

\* get_transaction_from_holder: Ok((trx, signature)), the tag's error, or the
\* panic of a split_at
get_transaction_from_holder(bytes) ==
    LET headed == split_at(bytes, 1)
    IN IF headed.kind = "Panic" THEN headed
       ELSE IF headed.value[1][1] # 0 THEN HolderTagError(headed.value[1][1])
       ELSE LET signed == split_at(headed.value[2], SIGNATURE_LEN)
            IN IF signed.kind = "Panic" THEN signed
               ELSE LET sized == split_at(signed.value[2], TRX_LEN_BYTES)
                    IN IF sized.kind = "Panic" THEN sized
                       ELSE LET trx_len == from_le_bytes(sized.value[1])
                                trx == split_at(sized.value[2], trx_len)
                            IN IF trx.kind = "Panic" THEN trx
                               ELSE OkValue([trx |-> trx.value[1],
                                             signature |-> signed.value[1]])

\* the holder arm of replay_transaction: get_transaction_from_holder(..)? and then
\* the decoding of trx
ReplayHolder ==
    /\ hd_result = None
    /\ LET got == get_transaction_from_holder(hd_data)
       IN hd_result' = Some([holder |-> got,
                             replay |-> IF got.kind = "Ok" THEN "decodes trx"
                                        ELSE IF got.kind = "Err" THEN "returns the error"
                                        ELSE "panics"])
    /\ UNCHANGED <<hd_data, notHdVars>>

HdInit ==
    /\ hd_data \in SeqUpTo(HolderBytes, MaxDataLen)
    /\ hd_result = None

InitHolder ==
    HdInit /\ PmIdle /\ RtIdle /\ TcIdle /\ DfIdle /\ StIdle /\ TrIdle /\ JsIdle /\ SkIdle
    /\ OpIdle /\ HoIdle /\ RqIdle /\ IcIdle /\ PaIdle /\ KmIdle /\ SlIdle /\ CrIdle /\ IpIdle
NextHolder == ReplayHolder
SpecHolder == InitHolder /\ [][NextHolder]_vars

\* the layout of the claim: tag 0, the signature, trx_len and trx_len bytes
HeaderLen == 1 + SIGNATURE_LEN + TRX_LEN_BYTES
DeclaredLen(bytes) == from_le_bytes(SubSeq(bytes, 2 + SIGNATURE_LEN, HeaderLen))
Conforming(bytes) ==
    /\ Len(bytes) >= HeaderLen
    /\ bytes[1] = 0
    /\ Len(bytes) >= HeaderLen + DeclaredLen(bytes)

\* C25: on data that is not of the layout (a tag other than 0, data too short for
\* the header or for the trx_len it declares) get_transaction_from_holder returns
\* an error and replay_transaction returns it; on data of the layout it returns
\* the trx_len bytes of the transaction and the signature bytes.
C25_HolderLayoutOrError ==
    IsSome(hd_result) =>
        LET out == Unwrap(hd_result)
        IN IF Conforming(hd_data)
           THEN out.holder =
                   OkValue([trx |-> SubSeq(hd_data, HeaderLen + 1,
                                           HeaderLen + DeclaredLen(hd_data)),
                            signature |-> SubSeq(hd_data, 2, 1 + SIGNATURE_LEN)])
           ELSE out.holder.kind = "Err" /\ out.replay = "returns the error"

(***************************************************************************)
(* ProcessedMessage with its accounts.  The value of an account is the     *)
(* sequence of the indexes of the instructions that wrote it, so that what *)
(* was applied, and in which order, can be read from it.  A handler writes *)
(* the cells of its keyed accounts and, through cross-program invocations, *)
(* the cells invoke_context.get_account gives it; a handler that fails may *)
(* have written before it failed.                                          *)
(***************************************************************************)
\* the keys of self.accounts, and a key of all_accounts that is not among them
WorkingKeys == {"a1", "a2"}
AllKeys == WorkingKeys \cup {"sysvar"}
\* the account_data fetched for the transaction
FetchedData == [k \in AllKeys |-> <<>>]

HostInstructions == [program : {"other"}, writes : {{"a1"}}, cpi : {{}, {"a2"}}, ok : BOOLEAN]
EvmInstructions == [program : {"evm_loader"}, writes : {{}}, cpi : {{}}, ok : BOOLEAN]

\* ProcessedMessage::load for each non-loader key: a cell with the account's value
LoadCells(accounts) == [k \in WorkingKeys |-> accounts[k]]

\* LightIC::get_account: the cell of the key, shared with self.accounts
LightIC_get_account(cells, pubkey) == IF pubkey \in DOMAIN cells THEN Some(pubkey) ELSE None

\* message_processor.process_instruction: the handler of instruction idx writes
\* the cells of its keyed accounts and those it reaches by get_account
RunHandler(instr, idx, cells) ==
    [k \in DOMAIN cells |->
        IF k \in instr.writes \/ (k \in instr.cpi /\ IsSome(LightIC_get_account(cells, k)))
        THEN Append(cells[k], idx) ELSE cells[k]]

\* ProcessedMessage::update: every cell is copied into all_accounts
updateMutant(cells, accounts) ==
    [k \in DOMAIN accounts |-> IF k = "a1" THEN cells[k] ELSE accounts[k]]
update(cells, accounts) ==
    [k \in DOMAIN accounts |-> IF k \in DOMAIN cells THEN cells[k] ELSE accounts[k]]

\* ProcessedMessage::process_instruction(idx): the handler, then update unless
\* the handler failed
ProcessedMessage_process_instruction(instrs, idx, cells, accounts) ==
    LET instr == instrs[idx + 1]
        written == RunHandler(instr, idx, cells)
    IN IF instr.ok
       THEN [result |-> Ok, cells |-> written, all_accounts |-> update(written, accounts)]
       ELSE [result |-> InstructionError(idx), cells |-> written, all_accounts |-> accounts]

\* MapProvider::new(processed.accounts(), ..): the map the trace reads
MapProvider_newMutant(accounts, fetched) == fetched
MapProvider_new(accounts, fetched) == accounts

SetSeen(i, map) == [pa_seen EXCEPT ![i + 1] = Some(map)]

\* the loop of replay_transaction, EVM loader arm: command_trace_call over the
\* MapProvider
TraceOverAccounts ==
    /\ pa_phase = "loop"
    /\ pa_idx < Len(pa_message)
    /\ pa_message[pa_idx + 1].program = "evm_loader"
    /\ pa_seen' = SetSeen(pa_idx, MapProvider_new(all_accounts, FetchedData))
    /\ IF pa_message[pa_idx + 1].ok
       THEN pa_idx' = pa_idx + 1 /\ UNCHANGED pa_phase
       ELSE pa_phase' = "done" /\ UNCHANGED pa_idx
    /\ UNCHANGED <<pa_message, pa_cells, all_accounts, pa_exited, pa_last, pa_calls, notPaVars>>

\* the loop of replay_transaction, other arm: processed.process_instruction(i)?
ProcessHostInstruction ==
    /\ pa_phase = "loop"
    /\ pa_idx < Len(pa_message)
    /\ pa_message[pa_idx + 1].program # "evm_loader"
    /\ LET done == ProcessedMessage_process_instruction(pa_message, pa_idx, pa_cells,
                                                        all_accounts)
       IN /\ pa_cells' = done.cells
          /\ all_accounts' = done.all_accounts
          /\ pa_last' = Some([idx |-> pa_idx, before |-> all_accounts,
                              result |-> done.result])
          /\ IF done.result.kind = "Err"
             THEN pa_phase' = "done" /\ UNCHANGED pa_idx
             ELSE pa_idx' = pa_idx + 1 /\ UNCHANGED pa_phase
    /\ pa_calls' = pa_calls + 1
    /\ UNCHANGED <<pa_message, pa_exited, pa_seen, notPaVars>>

\* the loop of replay_transaction is over
ReplayLoopEnds ==
    /\ pa_phase = "loop"
    /\ pa_idx = Len(pa_message)
    /\ pa_phase' = "done"
    /\ UNCHANGED <<pa_message, pa_cells, all_accounts, pa_idx, pa_exited, pa_seen, pa_last,
                   pa_calls, notPaVars>>

\* ProcessedMessage::new(account_data, ..)
PaInit(instructions) ==
    /\ pa_message \in SeqUpTo(instructions, MaxInstructions)
    /\ pa_cells = LoadCells(FetchedData)
    /\ all_accounts = FetchedData
    /\ pa_idx = 0
    /\ pa_exited = FALSE
    /\ pa_seen = [k \in 1..Len(pa_message) |-> None]
    /\ pa_last = None
    /\ pa_calls = 0

InitPreimage ==
    PaInit(HostInstructions \cup EvmInstructions) /\ pa_phase = "loop"
    /\ PmIdle /\ RtIdle /\ TcIdle /\ DfIdle /\ StIdle /\ TrIdle /\ JsIdle /\ SkIdle
    /\ OpIdle /\ HoIdle /\ RqIdle /\ IcIdle /\ HdIdle /\ KmIdle /\ SlIdle /\ CrIdle /\ IpIdle
NextPreimage == TraceOverAccounts \/ ProcessHostInstruction \/ ReplayLoopEnds
SpecPreimage == InitPreimage /\ [][NextPreimage]_vars

\* the fetched snapshot with the non-EVM instructions below n applied in index order
RECURSIVE AppliedBelow(_)
AppliedBelow(n) ==
    IF n = 0 THEN FetchedData
    ELSE LET before == AppliedBelow(n - 1)
             instr == pa_message[n]
         IN IF instr.program = "evm_loader" THEN before
            ELSE [k \in AllKeys |->
                    IF k \in instr.writes \cup instr.cpi THEN Append(before[k], n - 1)
                    ELSE before[k]]

\* C27: the EVM instruction at index i is traced over the fetched snapshot with
\* exactly the non-EVM instructions below i applied, in index order; the
\* instructions above i have no part in it.
C27_TracedOverPreimage ==
    \A i \in 0..(Len(pa_seen) - 1) :
        /\ IsSome(pa_seen[i + 1]) => Unwrap(pa_seen[i + 1]) = AppliedBelow(i)
        /\ (i < pa_idx /\ pa_message[i + 1].program = "evm_loader") => IsSome(pa_seen[i + 1])

\* two host instructions wrote the same account, one of them another through a
\* cross-program invocation, before the EVM instruction was traced
C27_Witness ==
    /\ pa_phase = "done"
    /\ Len(pa_message) = 3
    /\ pa_message[3].program = "evm_loader"
    /\ IsSome(pa_seen[3])
    /\ Unwrap(pa_seen[3])["a1"] = <<0, 1>>
    /\ Unwrap(pa_seen[3])["a2"] = <<1>>

\* ---- process_instruction and next() called on a ProcessedMessage ----
MaxCalls == 2

\* processed.process_instruction(idx), for any idx
CallProcessInstruction ==
    /\ pa_phase = "calls"
    /\ pa_calls < MaxCalls
    /\ \E idx \in 0..(Len(pa_message) - 1) :
          LET done == ProcessedMessage_process_instruction(pa_message, idx, pa_cells,
                                                           all_accounts)
          IN /\ pa_cells' = done.cells
             /\ all_accounts' = done.all_accounts
             /\ pa_last' = Some([idx |-> idx, before |-> all_accounts,
                                 result |-> done.result])
    /\ pa_calls' = pa_calls + 1
    /\ UNCHANGED <<pa_message, pa_idx, pa_exited, pa_seen, pa_phase, notPaVars>>

\* processed.next()
CallNext ==
    /\ pa_phase = "calls"
    /\ pa_calls < MaxCalls
    /\ IF ~pa_exited /\ pa_idx < Len(pa_message)
       THEN LET done == ProcessedMessage_process_instruction(pa_message, pa_idx, pa_cells,
                                                             all_accounts)
            IN /\ pa_idx' = pa_idx + 1
               /\ pa_cells' = done.cells
               /\ all_accounts' = done.all_accounts
               /\ pa_exited' = (done.result.kind = "Err" \/ pa_exited)
               /\ pa_last' = Some([idx |-> pa_idx, before |-> all_accounts,
                                   result |-> done.result])
       ELSE /\ pa_last' = None
            /\ UNCHANGED <<pa_idx, pa_cells, all_accounts, pa_exited>>
    /\ pa_calls' = pa_calls + 1
    /\ UNCHANGED <<pa_message, pa_seen, pa_phase, notPaVars>>

InitUpdate ==
    PaInit(HostInstructions) /\ pa_phase = "calls"
    /\ PmIdle /\ RtIdle /\ TcIdle /\ DfIdle /\ StIdle /\ TrIdle /\ JsIdle /\ SkIdle
    /\ OpIdle /\ HoIdle /\ RqIdle /\ IcIdle /\ HdIdle /\ KmIdle /\ SlIdle /\ CrIdle /\ IpIdle
NextUpdate == CallProcessInstruction \/ CallNext
SpecUpdate == InitUpdate /\ [][NextUpdate]_vars

\* C28: after process_instruction(idx) or next() returned Ok, accounts() holds for
\* every key of the working set the value the handler left in its cell, with what
\* cross-program invocations wrote, and the other keys as before; after it
\* returned an error, accounts() is the map it was before the call.
C28_AccountsAfterInstruction ==
    IsSome(pa_last) =>
        LET last == Unwrap(pa_last)
        IN IF last.result.kind = "Ok"
           THEN /\ \A k \in WorkingKeys : all_accounts[k] = pa_cells[k]
                /\ \A k \in AllKeys \ WorkingKeys : all_accounts[k] = last.before[k]
                /\ \A k \in pa_message[last.idx + 1].writes \cup pa_message[last.idx + 1].cpi :
                      all_accounts[k] # <<>>
                      /\ all_accounts[k][Len(all_accounts[k])] = last.idx
           ELSE all_accounts = last.before

\* an instruction wrote an account through a cross-program invocation and
\* accounts() has it, after an instruction that failed had changed nothing
C28_Witness ==
    /\ IsSome(pa_last)
    /\ Unwrap(pa_last).result.kind = "Ok"
    /\ pa_calls = 2
    /\ Unwrap(pa_last).before = FetchedData
    /\ pa_message[Unwrap(pa_last).idx + 1].cpi = {"a2"}
    /\ all_accounts["a2"] = <<Unwrap(pa_last).idx>>


(***************************************************************************)
(* ProcessedMessage::new and create_keyed_accounts (replay/processor.rs).  *)
(* A message has three account keys and one instruction; the snapshot      *)
(* holds an account under every key of the message, under the loaders and, *)
(* or not, under the program-data address of the program.                  *)
(***************************************************************************)
MaxIxAccounts == 2
\* message.account_keys, indexed from 0 as in the code
account_keys == <<"k0", "k1", "k2">>
KeyIndexes == 0..(Len(account_keys) - 1)
KeyAt(index) == account_keys[index + 1]
\* the key spaces of the loaders: upgradeable loader, another loader, native loader
UpgradeableLoader == "U"
BpfLoader == "B"
NativeLoader == "N"
ProgramData == "PD"
KmMessages ==
    [num_required_signatures : {1, 2},
     num_readonly_unsigned_accounts : {0, 1},
     program_id_index : KeyIndexes,
     accounts : SeqUpTo(KeyIndexes, MaxIxAccounts)]
KmSnapshots ==
    [owner : {UpgradeableLoader, BpfLoader, NativeLoader},
     executable : BOOLEAN,
     state : {"Program", "Uninitialized"},
     loader_owner : {NativeLoader, BpfLoader},
     programdata : BOOLEAN]

\* Message::is_signer, Message::is_writable: by the position of the key
is_signer(m, index) == index < m.num_required_signatures
is_writable(m, index) ==
    \/ index < m.num_required_signatures
    \/ /\ index >= m.num_required_signatures
       /\ index < Len(account_keys) - m.num_readonly_unsigned_accounts
\* Message::program_id, is_key_passed_to_program, is_non_loader_key
program_id(m) == KeyAt(m.program_id_index)
is_key_passed_to_program(m, index) == \E j \in 1..Len(m.accounts) : m.accounts[j] = index
is_non_loader_key(m, index) ==
    KeyAt(index) # program_id(m) \/ is_key_passed_to_program(m, index)

\* the snapshot: the account stored under a key, None when there is none.  An
\* account carries the key it is stored under, so that it can be told from others.
AccountOf(m, snap, key) ==
    CASE key = program_id(m) ->
            Some([stored_under |-> key, owner |-> snap.owner,
                  executable |-> snap.executable, state |-> snap.state])
      [] key = UpgradeableLoader ->
            Some([stored_under |-> key, owner |-> NativeLoader,
                  executable |-> TRUE, state |-> "Uninitialized"])
      [] key = BpfLoader ->
            Some([stored_under |-> key, owner |-> snap.loader_owner,
                  executable |-> TRUE, state |-> "Uninitialized"])
      [] key = ProgramData ->
            IF snap.programdata
            THEN Some([stored_under |-> key, owner |-> UpgradeableLoader,
                       executable |-> FALSE, state |-> "ProgramData"])
            ELSE None
      [] OTHER ->
            Some([stored_under |-> key, owner |-> "system",
                  executable |-> FALSE, state |-> "Uninitialized"])

\* ProcessedMessage::load
load(m, snap, key) ==
    IF AccountOf(m, snap, key) = None THEN Err("AccountNotFound", key)
    ELSE OkValue(Unwrap(AccountOf(m, snap, key)))

\* the account the entry of the program-data address is given: the code loads
\* program_id once more, not programdata_address
LoadProgramData(m, snap, id) == load(m, snap, id)

\* ProcessedMessage::get_loaders: the loop, from the state (accounts, depth, program_id)
MaxLoaderDepth == 5
RECURSIVE get_loaders_from(_, _, _, _, _)
get_loaders_from(m, snap, accounts, depth, id) ==
    IF id = NativeLoader THEN OkValue(accounts)
    ELSE IF depth >= MaxLoaderDepth THEN Panic("call chain too deep")
    ELSE LET program == load(m, snap, id)
         IN IF program.kind = "Err" THEN program
            ELSE IF ~program.value.executable
            THEN Err("InvalidTrasaction", "InvalidProgramForExecution")
            ELSE IF program.value.owner = UpgradeableLoader
            THEN IF program.value.state # "Program"
                 THEN Panic("InvalidProgramForExecution")
                 ELSE LET programdata == LoadProgramData(m, snap, id)
                      IN IF programdata.kind = "Err" THEN programdata
                         ELSE get_loaders_from(m, snap,
                                  <<[key |-> id, account |-> program.value],
                                    [key |-> ProgramData, account |-> programdata.value]>>
                                  \o accounts,
                                  depth + 1, program.value.owner)
            ELSE get_loaders_from(m, snap,
                     <<[key |-> id, account |-> program.value]>> \o accounts,
                     depth + 1, program.value.owner)
get_loaders(m, snap, id) == get_loaders_from(m, snap, <<>>, 0, id)

\* ProcessedMessage::new, accounts_vec: the keys is_non_loader_key lets through,
\* in the order of account_keys; a key that is only a program id is skipped
RECURSIVE accounts_vec_from(_, _, _)
accounts_vec_from(m, snap, index) ==
    IF index >= Len(account_keys) THEN <<>>
    ELSE IF is_non_loader_key(m, index)
    THEN <<[key |-> KeyAt(index), account |-> load(m, snap, KeyAt(index)).value]>>
         \o accounts_vec_from(m, snap, index + 1)
    ELSE accounts_vec_from(m, snap, index + 1)

\* ProcessedMessage::new
ProcessedMessage_new(m, snap) ==
    LET loaders == get_loaders(m, snap, program_id(m))
    IN IF loaders.kind # "Ok" THEN loaders
       ELSE OkValue([accounts |-> accounts_vec_from(m, snap, 0),
                     loaders |-> loaders.value])

\* create_keyed_accounts: (is_signer, is_writable, key, account) of the loader
\* accounts and then of accounts[index] for the indexes of the instruction
create_keyed_accounts(m, executable_accounts, accounts) ==
    IF \E j \in 1..Len(m.accounts) : m.accounts[j] >= Len(accounts)
    THEN Panic("index out of bounds")
    ELSE OkValue(
        [j \in 1..Len(executable_accounts) |->
            [is_signer |-> FALSE, is_writable |-> FALSE,
             key |-> executable_accounts[j].key,
             account |-> executable_accounts[j].account]]
        \o
        [j \in 1..Len(m.accounts) |->
            [is_signer |-> is_signer(m, m.accounts[j]),
             is_writable |-> is_writable(m, m.accounts[j]),
             key |-> accounts[m.accounts[j] + 1].key,
             account |-> accounts[m.accounts[j] + 1].account]])

\* ---- actions ----
NewProcessedMessage ==
    /\ km_processed = None
    /\ km_processed' = Some(ProcessedMessage_new(km_message, km_snapshot))
    /\ UNCHANGED <<km_message, km_snapshot, km_keyed, notKmVars>>

\* process_instruction builds the keyed accounts of the instruction
CreateKeyedAccounts ==
    /\ km_processed # None
    /\ Unwrap(km_processed).kind = "Ok"
    /\ km_keyed = None
    /\ km_keyed' = Some(create_keyed_accounts(km_message,
                                              Unwrap(km_processed).value.loaders,
                                              Unwrap(km_processed).value.accounts))
    /\ UNCHANGED <<km_message, km_snapshot, km_processed, notKmVars>>

KmInit ==
    /\ km_message \in KmMessages
    /\ km_snapshot \in KmSnapshots
    /\ km_processed = None
    /\ km_keyed = None
InitMessage ==
    KmInit /\ PmIdle /\ RtIdle /\ TcIdle /\ DfIdle /\ StIdle /\ TrIdle /\ JsIdle /\ SkIdle
    /\ OpIdle /\ HoIdle /\ RqIdle /\ IcIdle /\ HdIdle /\ PaIdle /\ SlIdle /\ CrIdle /\ IpIdle
NextMessage == NewProcessedMessage \/ CreateKeyedAccounts
SpecMessage == InitMessage /\ [][NextMessage]_vars

KmLoaders == Unwrap(km_processed).value.loaders
KmKeyed == Unwrap(km_keyed)

\* C33: in the keyed accounts of an instruction the loader accounts come first,
\* neither signer nor writable, and the entry of each instruction account index k
\* has the key account_keys[k], the account stored under it and the signer and
\* writable flags of k, whatever the layout of the message.
C33_KeyedAccountsOfTheirIndexes ==
    km_keyed # None =>
        /\ KmKeyed.kind = "Ok"
        /\ Len(KmKeyed.value) = Len(KmLoaders) + Len(km_message.accounts)
        /\ \A j \in 1..Len(KmLoaders) :
              /\ KmKeyed.value[j].key = KmLoaders[j].key
              /\ ~KmKeyed.value[j].is_signer /\ ~KmKeyed.value[j].is_writable
        /\ \A j \in 1..Len(km_message.accounts) :
              LET k == km_message.accounts[j]
                  entry == KmKeyed.value[Len(KmLoaders) + j]
              IN /\ entry.key = KeyAt(k)
                 /\ entry.account.stored_under = KeyAt(k)
                 /\ entry.is_signer = is_signer(km_message, k)
                 /\ entry.is_writable = is_writable(km_message, k)

\* C34: for a program owned by the upgradeable loader the chain get_loaders
\* returns has, before the entry of the program, an entry keyed by the program's
\* programdata_address that holds the account stored under that address; the walk
\* ends at the native loader within MaxLoaderDepth hops.
C34_ProgramDataInLoaderChain ==
    (/\ km_processed # None
     /\ km_snapshot.owner = UpgradeableLoader
     /\ km_snapshot.executable /\ km_snapshot.state = "Program"
     /\ km_snapshot.programdata) =>
        /\ Unwrap(km_processed).kind = "Ok"
        /\ Len(KmLoaders) <= MaxLoaderDepth + 1
        /\ \E i, j \in 1..Len(KmLoaders) :
              /\ i < j
              /\ KmLoaders[i].key = ProgramData
              /\ KmLoaders[i].account.stored_under = ProgramData
              /\ KmLoaders[j].key = program_id(km_message)


(***************************************************************************)
(* From<VMTrace> for Vec<StructLog> (v1/geth/types/trace.rs).  A VMTrace   *)
(* is [operations, subs]: operations is the number of operations of the    *)
(* node, an operation being known by the path of its node and its index,   *)
(* and subs the sequence of [parent_step, trace].                          *)
(***************************************************************************)
MaxOps == 2
MaxSubs == 2
LeafTraces == [operations : 0..MaxOps, subs : {<<>>}]
InnerTraces ==
    [operations : 0..MaxOps,
     subs : SeqUpTo([parent_step : 0..MaxOps, trace : LeafTraces], MaxSubs)]
\* traces of up to three levels: the third level hangs under a single sub-trace
VMTraces ==
    InnerTraces \cup
    [operations : 0..MaxOps,
     subs : {<<sub>> : sub \in [parent_step : 0..MaxOps, trace : InnerTraces]}]

\* the depth handed to the conversion of a sub-trace
SubDepthMutant(depth) == depth
SubDepth(depth) == depth + 1

\* StructLog::from_trace_with_depth.  from_operations is the iteration over the
\* operations from index idx on, subs being what is left of the peekable
\* iterator and taken the number of sub-traces it has given.
RECURSIVE from_trace_with_depth(_, _, _)
RECURSIVE from_operations(_, _, _, _, _, _)
from_operations(operations, subs, idx, depth, path, taken) ==
    IF idx >= operations THEN <<>>
    ELSE <<[path |-> path, idx |-> idx, depth |-> depth]>>
         \o IF subs # <<>> /\ Head(subs).parent_step = idx
            THEN from_trace_with_depth(Head(subs).trace, SubDepth(depth),
                                       Append(path, taken + 1))
                 \o from_operations(operations, Tail(subs), idx + 1, depth, path, taken + 1)
            ELSE from_operations(operations, subs, idx + 1, depth, path, taken)
from_trace_with_depth(vm_trace, depth, path) ==
    from_operations(vm_trace.operations, vm_trace.subs, 0, depth, path, 0)

\* From<VMTrace> for Vec<StructLog>
StructLogsOfTrace(vm_trace) == from_trace_with_depth(vm_trace, 1, <<>>)

Convert ==
    /\ sl_logs = None
    /\ sl_logs' = Some(StructLogsOfTrace(sl_trace))
    /\ UNCHANGED <<sl_trace, notSlVars>>

SlInit ==
    /\ sl_trace \in VMTraces
    /\ sl_logs = None
InitStructLog ==
    SlInit /\ PmIdle /\ RtIdle /\ TcIdle /\ DfIdle /\ StIdle /\ TrIdle /\ JsIdle /\ SkIdle
    /\ OpIdle /\ HoIdle /\ RqIdle /\ IcIdle /\ HdIdle /\ PaIdle /\ KmIdle /\ CrIdle /\ IpIdle
NextStructLog == Convert
SpecStructLog == InitStructLog /\ [][NextStructLog]_vars

\* the number of operations of a trace and all its sub-traces
RECURSIVE TotalOperations(_)
RECURSIVE TotalOfSubs(_)
TotalOfSubs(subs) ==
    IF subs = <<>> THEN 0 ELSE TotalOperations(Head(subs).trace) + TotalOfSubs(Tail(subs))
TotalOperations(vm_trace) == vm_trace.operations + TotalOfSubs(vm_trace.subs)

\* the operations in execution order: each operation, then the sub-traces whose
\* parent_step it is, at one depth more
RECURSIVE ExecutionOrder(_, _, _)
RECURSIVE OrderFrom(_, _, _, _)
RECURSIVE SubsOf(_, _, _, _, _)
SubsOf(vm_trace, idx, depth, path, j) ==
    IF j > Len(vm_trace.subs) THEN <<>>
    ELSE (IF vm_trace.subs[j].parent_step = idx
          THEN ExecutionOrder(vm_trace.subs[j].trace, depth + 1, Append(path, j))
          ELSE <<>>)
         \o SubsOf(vm_trace, idx, depth, path, j + 1)
OrderFrom(vm_trace, idx, depth, path) ==
    IF idx >= vm_trace.operations THEN <<>>
    ELSE <<[path |-> path, idx |-> idx, depth |-> depth]>>
         \o SubsOf(vm_trace, idx, depth, path, 1)
         \o OrderFrom(vm_trace, idx + 1, depth, path)
ExecutionOrder(vm_trace, depth, path) == OrderFrom(vm_trace, 0, depth, path)

\* at every node the sub-traces are in strictly increasing order of parent_step
\* and every parent_step is the index of an operation of the node
RECURSIVE WellFormed(_)
WellFormed(vm_trace) ==
    \A j \in 1..Len(vm_trace.subs) :
        /\ vm_trace.subs[j].parent_step < vm_trace.operations
        /\ j > 1 => vm_trace.subs[j - 1].parent_step < vm_trace.subs[j].parent_step
        /\ WellFormed(vm_trace.subs[j].trace)

SlLogs == Unwrap(sl_logs)
EveryOperationOnce ==
    /\ Len(SlLogs) = TotalOperations(sl_trace)
    /\ SlLogs = ExecutionOrder(sl_trace, 1, <<>>)

Lookups == {"found", "not found", "db error"}

\* Ok(replay_transaction(config, msg, trace_code)?.unwrap())
UnwrapTrace(replayed) ==
    IF replayed.kind # "Ok" THEN replayed
    ELSE IF replayed.value = None
    THEN Panic("called Option::unwrap() on a None value")
    ELSE OkValue(Unwrap(replayed.value))

\* the message was found and replay_transaction has returned
CommandReplayReturns ==
    /\ cr_lookup = "found"
    /\ cr_result = None
    /\ rt_pc = "done"
    /\ cr_result' = Some(UnwrapTrace(Unwrap(rt_result)))
    /\ UNCHANGED <<cr_lookup, notCrVars>>

\* get_transaction_data(transaction_hash)? gave an error, or Ok(None)
CommandReplayNotFound ==
    /\ cr_lookup \in {"not found", "db error"}
    /\ cr_result = None
    /\ cr_result' = Some(Err(IF cr_lookup = "db error" THEN "db" ELSE "transaction not found", ""))
    /\ UNCHANGED <<cr_lookup, notCrVars>>

CrInit ==
    /\ cr_lookup \in Lookups
    /\ cr_result = None
    /\ IF cr_lookup = "found" THEN PmInit /\ RtInit ELSE PmIdle /\ RtIdle
InitCommandReplay ==
    CrInit /\ TcIdle /\ DfIdle /\ StIdle /\ TrIdle /\ JsIdle /\ SkIdle
    /\ OpIdle /\ HoIdle /\ RqIdle /\ IcIdle /\ HdIdle /\ PaIdle /\ KmIdle /\ SlIdle /\ IpIdle
NextCommandReplay ==
    \/ ReplayEvmInstruction \/ ReplayHostInstruction \/ ReplayReturn
    \/ CommandReplayReturns \/ CommandReplayNotFound
SpecCommandReplay == InitCommandReplay /\ [][NextCommandReplay]_vars

\* C38: command_replay_transaction returns Ok with a trace or Err for every
\* transaction found - also one without an EVM instruction of a traced kind, for
\* which replay_transaction gives Ok(None) - and Err when the hash is not found;
\* it never panics.
C38_OkWithTraceOrErr ==
    cr_result # None =>
        /\ Unwrap(cr_result).kind \in {"Ok", "Err"}
        /\ cr_lookup # "found" => Unwrap(cr_result).kind = "Err"
        /\ Unwrap(cr_result).kind = "Ok" =>
              \E i \in TracedBelow(Len(message)) : Unwrap(cr_result).value = TracedCallOf(i)


(***************************************************************************)
(* OpCode::is_push (js/mod.rs), the isPush() of log.op.                    *)
(***************************************************************************)
\* the largest u8
U8_MAX == 255
\* the opcode bytes of PUSH1 and PUSH32
PUSH1 == 96
PUSH32 == 127
\* the range 0x60..0x7f of Rust: from 0x60 up to, not including, 0x7f
RangeExclusive(lo, hi) == {x \in 0..U8_MAX : lo <= x /\ x < hi}

\* OpCode::is_push
is_push(opcode) == opcode \in RangeExclusive(PUSH1, PUSH32)

IsPush ==
    /\ ip_result = None
    /\ ip_result' = Some(is_push(ip_code))
    /\ UNCHANGED <<ip_code, notIpVars>>

IpInit ==
    /\ ip_code \in 0..U8_MAX
    /\ ip_result = None
InitIsPush ==
    IpInit /\ PmIdle /\ RtIdle /\ TcIdle /\ DfIdle /\ StIdle /\ TrIdle /\ JsIdle /\ SkIdle
    /\ OpIdle /\ HoIdle /\ RqIdle /\ IcIdle /\ HdIdle /\ PaIdle /\ KmIdle /\ SlIdle /\ CrIdle
NextIsPush == IsPush
SpecIsPush == InitIsPush /\ [][NextIsPush]_vars

\* C40: isPush() is true exactly for the opcode bytes of PUSH1 to PUSH32, 0x60
\* to 0x7f inclusive, and false for every other byte.
C40_IsPushExactlyPushOpcodes ==
    ip_result # None => (Unwrap(ip_result) <=> ip_code \in PUSH1..PUSH32)

=============================================================================
